---- MODULE Spec2Model ----
(***************************************************************************)
(* A model of the carbon time-series analysis functions of the FullCAM     *)
(* integration: calculateCarbonSequestration, dateToDecimalYear,           *)
(* calculateAverageAnnualSequestration, calculateAreaCarbonMetrics         *)
(* (spatial-data-updater) and renderStepSequestrationCharts with its       *)
(* helpers (carbon-charts.ts).                                             *)
(*                                                                         *)
(* Representation.                                                         *)
(*  - A text is a sequence of characters (one-character strings), so that  *)
(*    includes(), toLowerCase() and trim() are computed, not assumed.      *)
(*  - A CSV payload is the sequence of its lines (the pieces between       *)
(*    newlines), a line the sequence of its fields (the pieces between     *)
(*    commas).  A field is either a numeric text, given by the number it   *)
(*    denotes, or any other text, given by its characters.                 *)
(*  - Numbers are fixed point, a numeric field being counted in the unit   *)
(*    of the column it is read for: decimal years in thousandths of a      *)
(*    year; carbon masses in units of 10^-11 tC/ha, one digit below the    *)
(*    ten decimals the code rounds to, so that toFixed(10) rounds; years   *)
(*    and steps in ones.                                                   *)
(***************************************************************************)
EXTENDS Integers, Sequences, FiniteSets, TLC

VARIABLES
    response,   \* the SimulationResponse (or simulation data) a call is given
    pc,         \* "idle" before a call, "done" after it
    call,       \* the operation called and its other arguments
    result,     \* what the call returned (or that it threw)
    earlier,    \* the call made before this one, if any, and its result
    dom,        \* the two chart containers of the page
    updater     \* a SpatialDataUpdater: its key, its requests, its timer

vars == <<response, pc, call, result, earlier, dom, updater>>

----------------------------------------------------------------------------
(* Bounds of the model *)

\* most lines after the first line in a payload given to
\* calculateCarbonSequestration
MaxRows == 3
\* most lines after the first line in a payload given to the other operations
MaxOpsRows == 2
\* how many calendar years, from 2023 on, dateToDecimalYear is called with
NumYears == 3
\* most lines after the first line in a payload given to
\* extractStepCarbonChanges on its own
MaxChartRows == 3
\* most changes given to buildCumulativeSequestrationSeries on its own
MaxChanges == 3
\* longest series getSharedTickIndices is called for
MaxSeriesLength == 20
\* most columns of a header whose columns are resolved on their own
MaxColumns == 5
\* most points given to batchUpdateSpatialData
MaxPoints == 3
\* longest string whose escaped form is given to unescapeJsonString
MaxTextLen == 3

----------------------------------------------------------------------------
(* Texts *)

PatDecYear == <<"D", "e", "c", ".", " ", "Y", "e", "a", "r">>
PatTrees == <<"C", " ", "m", "a", "s", "s", " ", "o", "f", " ", "t", "r", "e", "e", "s">>
PatDebris == <<"C", " ", "m", "a", "s", "s", " ", "o", "f", " ", "f", "o", "r", "e", "s", "t", " ", "d", "e", "b", "r", "i", "s">>
PatUnit == <<"t", "C", "/", "h", "a">>
PatYear == <<"y", "e", "a", "r">>
PatStep == <<"s", "t", "e", "p", " ", "i", "n", " ", "y", "e", "a", "r">>

UpperAlpha == <<"A", "B", "C", "D", "E", "F", "G", "H", "I", "J", "K", "L", "M", "N", "O", "P", "Q", "R", "S", "T", "U", "V", "W", "X", "Y", "Z">>
LowerAlpha == <<"a", "b", "c", "d", "e", "f", "g", "h", "i", "j", "k", "l", "m", "n", "o", "p", "q", "r", "s", "t", "u", "v", "w", "x", "y", "z">>

\* String.prototype.includes: sub occurs in s as a contiguous piece
Includes(s, sub) ==
    \E i \in 0..(Len(s) - Len(sub)) : SubSeq(s, i + 1, i + Len(sub)) = sub

LowerChar(c) ==
    IF \E k \in 1..Len(UpperAlpha) : UpperAlpha[k] = c
    THEN LowerAlpha[CHOOSE k \in 1..Len(UpperAlpha) : UpperAlpha[k] = c]
    ELSE c

\* String.prototype.toLowerCase
ToLowerCase(s) == [k \in 1..Len(s) |-> LowerChar(s[k])]

\* String.prototype.trim: drops the leading and trailing blanks
RECURSIVE TrimStart(_)
TrimStart(s) ==
    IF s /= <<>> /\ Head(s) = " " THEN TrimStart(Tail(s)) ELSE s

RECURSIVE TrimEnd(_)
TrimEnd(s) ==
    IF s /= <<>> /\ s[Len(s)] = " " THEN TrimEnd(SubSeq(s, 1, Len(s) - 1)) ELSE s

Trim(s) == TrimEnd(TrimStart(s))

----------------------------------------------------------------------------
(* Fields, lines and numbers *)

\* a field holding the decimal text of the number v
Num(v) == [num |-> TRUE, val |-> v, chars |-> <<>>]
\* a field holding a text that does not start with a number
Txt(cs) == [num |-> FALSE, val |-> 0, chars |-> cs]

\* v.trim() of a field
TrimField(f) == IF f.num THEN f ELSE Txt(Trim(f.chars))

\* the last field of a row taken for missing
HasFieldBeforeLast(values, index) == index >= 0 /\ index < Len(values) - 1

\* values[index]: undefined beyond the end of the row (index is zero-based)
HasField(values, index) == index >= 0 /\ index < Len(values)

NaN == [nan |-> TRUE, v |-> 0]
Number(v) == [nan |-> FALSE, v |-> v]

\* a field that is no number read as 0
ParseFloatOrZero(values, index) ==
    IF HasField(values, index) /\ values[index + 1].num
    THEN Number(values[index + 1].val)
    ELSE Number(0)

\* parseFloat(values[index]); parseFloat(undefined) is NaN
ParseFloatAt(values, index) ==
    IF HasField(values, index) /\ values[index + 1].num
    THEN Number(values[index + 1].val)
    ELSE NaN

\* line.trim() is falsy: the line holds nothing but blanks
IsBlankLine(line) ==
    \/ line = <<>>
    \/ Len(line) = 1 /\ ~line[1].num /\ Trim(line[1].chars) = <<>>

\* csvData.split('\n').filter(line => line.trim())
RECURSIVE NonBlankLines(_)
NonBlankLines(lines) ==
    IF lines = <<>> THEN <<>>
    ELSE IF IsBlankLine(Head(lines)) THEN NonBlankLines(Tail(lines))
    ELSE <<Head(lines)>> \o NonBlankLines(Tail(lines))

\* lines[i].split(',').map(v => v.trim())
SplitLine(line) == [k \in 1..Len(line) |-> TrimField(line[k])]

\* Array.prototype.findIndex, given for each header whether the test holds
\* of it: the zero-based index of the first that passes, -1 if none does
FindIndex(passes) ==
    IF \E k \in 1..Len(passes) : passes[k]
    THEN (CHOOSE k \in 1..Len(passes) :
            /\ passes[k]
            /\ \A j \in 1..(k - 1) : ~passes[j]) - 1
    ELSE -1

\* n / d rounded to the nearest integer, halves away from zero (d > 0)
RoundDiv(n, d) ==
    IF n >= 0 THEN (2 * n + d) \div (2 * d)
    ELSE -((2 * (-n) + d) \div (2 * d))

\* rounded to 9 decimals
ToFixed9(x) == 100 * RoundDiv(x, 100)

\* parseFloat(x.toFixed(10)) of a carbon mass in units of 10^-11
ToFixed10(x) == 10 * RoundDiv(x, 10)

Abs(x) == IF x < 0 THEN -x ELSE x

----------------------------------------------------------------------------
(* calculateCarbonSequestration *)

ErrInvalidResponse == "Invalid simulation response or no data available"
ErrNoDataRows == "No data rows found in simulation response"
ErrNoDecYear == "Could not find \"Dec. Year\" column in CSV data"
ErrNoCarbon == "Could not find \"C mass of trees (tC/ha)\" column in CSV data"
ErrNoValues == "Could not find carbon values for the specified date range"
ErrMonth == "Month must be between 1 and 12"

\* !simulationResponse.data: undefined and the empty string are falsy
NoData(resp) ==
    \/ resp.kind = "undefined"
    \/ resp.kind = "string" /\ resp.lines = <<>>

\* the success flag of the response not looked at
InvalidResponseDataOnly(resp) == NoData(resp)

\* !simulationResponse.success || !simulationResponse.data
InvalidResponse(resp) == ~resp.success \/ NoData(resp)

\* typeof data === 'string' ? data : JSON.stringify(data), as lines: the
\* JSON text of an object has no line break
CsvLines(resp) == NonBlankLines(resp.lines)

\* the header line not counted: two data lines asked for
TooFewLinesForTwoRows(lines) == Len(lines) < 3

\* lines.length < 2
TooFewLines(lines) == Len(lines) < 2

IsDecYearHeader(h) == Includes(h, PatDecYear)
IsTreesHeader(h) == Includes(h, PatTrees) /\ Includes(h, PatUnit)

\* the unit of the tree-carbon column not looked at
IsTreesHeaderAnyUnit(h) == Includes(h, PatTrees)
CarbonIndexAnyUnit(headers) ==
    FindIndex([k \in 1..Len(headers) |-> IsTreesHeaderAnyUnit(headers[k].chars)])

\* the first column with "year" in its name taken for the Dec. Year
DecYearIndexAnyYear(headers) ==
    FindIndex([k \in 1..Len(headers) |-> Includes(ToLowerCase(headers[k].chars), PatYear)])

DecYearIndex(headers) ==
    FindIndex([k \in 1..Len(headers) |-> IsDecYearHeader(headers[k].chars)])
CarbonIndex(headers) ==
    FindIndex([k \in 1..Len(headers) |-> IsTreesHeader(headers[k].chars)])

\* the returned object: the keys it has, and their values (0 where absent);
\* parsed counts the lines that were split into fields before the return
SeqFailure(error, parsed) ==
    [fields |-> {"success", "error"}, success |-> FALSE, error |-> error,
     totalCarbon |-> 0, startCarbon |-> 0, endCarbon |-> 0, dataPoints |-> 0,
     parsed |-> parsed]

\* the difference taken the wrong way round
TotalCarbonReversed(startCarbon, endCarbon) == startCarbon - endCarbon

\* endCarbon - startCarbon
TotalCarbon(startCarbon, endCarbon) == endCarbon - startCarbon

SeqSuccess(startCarbon, endCarbon, parsed) ==
    [fields |-> {"success", "totalCarbon", "startCarbon", "endCarbon", "dataPoints"},
     success |-> TRUE, error |-> "",
     totalCarbon |-> ToFixed10(TotalCarbon(startCarbon, endCarbon)),
     startCarbon |-> ToFixed10(startCarbon),
     endCarbon |-> ToFixed10(endCarbon),
     dataPoints |-> 2,
     parsed |-> parsed]

Infinity == [inf |-> TRUE, v |-> 0]
Finite(v) == [inf |-> FALSE, v |-> v]
Null == [null |-> TRUE, v |-> 0]
Value(v) == [null |-> FALSE, v |-> v]

\* the comparison with <= for <: a later row at the same distance wins
CloserOrEqual(diff, closest) == closest.inf \/ diff <= closest.v

\* startDiff < closestStartDiff
Closer(diff, closest) == closest.inf \/ diff < closest.v

ScanInit ==
    [startCarbon |-> Null, endCarbon |-> Null,
     closestStartDiff |-> Infinity, closestEndDiff |-> Infinity]

\* one turn of the loop over the data lines
ScanRow(acc, line, decYearIndex, carbonIndex, startDate, endDate) ==
    LET values == SplitLine(line)
        decYear == ParseFloatAt(values, decYearIndex)
        carbonValue == ParseFloatAt(values, carbonIndex)
        startDiff == Abs(decYear.v - startDate)
        endDiff == Abs(decYear.v - endDate)
        newStart == Closer(startDiff, acc.closestStartDiff)
        newEnd == Closer(endDiff, acc.closestEndDiff)
    IN  IF decYear.nan \/ carbonValue.nan THEN acc
        ELSE [startCarbon |-> IF newStart THEN Value(carbonValue.v) ELSE acc.startCarbon,
              closestStartDiff |-> IF newStart THEN Finite(startDiff) ELSE acc.closestStartDiff,
              endCarbon |-> IF newEnd THEN Value(carbonValue.v) ELSE acc.endCarbon,
              closestEndDiff |-> IF newEnd THEN Finite(endDiff) ELSE acc.closestEndDiff]

\* for (let i = 1; i < lines.length; i++), i being one-based here
RECURSIVE ScanRows(_, _, _, _, _, _, _)
ScanRows(acc, lines, i, decYearIndex, carbonIndex, startDate, endDate) ==
    IF i > Len(lines) THEN acc
    ELSE ScanRows(ScanRow(acc, lines[i], decYearIndex, carbonIndex, startDate, endDate),
                  lines, i + 1, decYearIndex, carbonIndex, startDate, endDate)

calculateCarbonSequestration(resp, startDate, endDate) ==
    IF InvalidResponse(resp) THEN SeqFailure(ErrInvalidResponse, 0)
    ELSE LET lines == CsvLines(resp) IN
    IF TooFewLines(lines) THEN SeqFailure(ErrNoDataRows, 0)
    ELSE LET headers == SplitLine(lines[1])
             decYearIndex == DecYearIndex(headers)
             carbonIndex == CarbonIndex(headers)
         IN
    IF decYearIndex = -1 THEN SeqFailure(ErrNoDecYear, 1)
    ELSE IF carbonIndex = -1 THEN SeqFailure(ErrNoCarbon, 1)
    ELSE LET acc == ScanRows(ScanInit, lines, 2, decYearIndex, carbonIndex, startDate, endDate) IN
    IF acc.startCarbon.null \/ acc.endCarbon.null THEN SeqFailure(ErrNoValues, Len(lines))
    ELSE SeqSuccess(acc.startCarbon.v, acc.endCarbon.v, Len(lines))

----------------------------------------------------------------------------
(* dateToDecimalYear and calculateAverageAnnualSequestration *)

\* month 0 let through
MonthOutOfRangeFromZero(month) == month < 0 \/ month > 12

\* month < 1 || month > 12
MonthOutOfRange(month) == month < 1 \/ month > 12

\* the month taken as it is, not less one
DecimalYearValueOfMonth(year, month) == RoundDiv(1000 * (12 * year + month), 12)

\* parseFloat((year + (month - 1) / 12).toFixed(3)), in thousandths
DecimalYearValue(year, month) == RoundDiv(1000 * (12 * year + (month - 1)), 12)

\* the call either throws an Error or returns a number
dateToDecimalYear(year, month) ==
    IF MonthOutOfRange(month)
    THEN [thrown |-> TRUE, error |-> ErrMonth, v |-> 0]
    ELSE [thrown |-> FALSE, error |-> "", v |-> DecimalYearValue(year, month)]

AvgFailure(error) ==
    [thrown |-> FALSE, fields |-> {"success", "error"}, success |-> FALSE,
     error |-> error, totalCarbon |-> 0, averagePerYear |-> 0, years |-> 0]

\* only years = 0 guarded against
AveragePerYearUnlessZero(totalCarbon, years) ==
    IF years /= 0 THEN 10 * RoundDiv(totalCarbon * 1000, 10 * years) ELSE 0

\* years > 0 ? result.totalCarbon / years : 0, then toFixed(10); years is in
\* thousandths, so the quotient is totalCarbon * 1000 / years
AveragePerYear(totalCarbon, years) ==
    IF years > 0 THEN 10 * RoundDiv(totalCarbon * 1000, 10 * years) ELSE 0

\* one decimal kept for two
YearsReturnedOneDecimal(years) == 100 * RoundDiv(years, 100)

\* parseFloat(years.toFixed(2)), kept in thousandths
YearsReturned(years) == 10 * RoundDiv(years, 10)

AvgSuccess(totalCarbon, years) ==
    [thrown |-> FALSE,
     fields |-> {"success", "totalCarbon", "averagePerYear", "years"},
     success |-> TRUE, error |-> "", totalCarbon |-> totalCarbon,
     averagePerYear |-> AveragePerYear(totalCarbon, years),
     years |-> YearsReturned(years)]

\* the body of the try block, given the two converted dates
AverageOfDates(resp, startDate, endDate) ==
    LET res == calculateCarbonSequestration(resp, startDate, endDate) IN
    IF ~res.success \/ "totalCarbon" \notin res.fields
    THEN AvgFailure(res.error)
    ELSE AvgSuccess(res.totalCarbon, endDate - startDate)

\* no catch block: the Error goes on to the caller
Rethrow(error) ==
    [thrown |-> TRUE, fields |-> {}, success |-> FALSE,
     error |-> error, totalCarbon |-> 0, averagePerYear |-> 0, years |-> 0]

\* what the catch block makes of an Error thrown inside the try block
CatchAverage(error) == AvgFailure(error)

calculateAverageAnnualSequestration(resp, startYear, startMonth, endYear, endMonth) ==
    LET startDate == dateToDecimalYear(startYear, startMonth)
        endDate == dateToDecimalYear(endYear, endMonth)
    IN  IF startDate.thrown THEN CatchAverage(startDate.error)
        ELSE IF endDate.thrown THEN CatchAverage(endDate.error)
        ELSE AverageOfDates(resp, startDate.v, endDate.v)

----------------------------------------------------------------------------
(* calculateTotalCarbonForArea and calculateAreaCarbonMetrics *)

\* a JavaScript number: the fraction n / d (d > 0), or NaN, or an infinity
Fin(n, d) == [k |-> "fin", n |-> n, d |-> d]
NotFinite(k) == [k |-> k, n |-> 0, d |-> 1]

\* totalCarbon / years, years being in thousandths; x / 0 is an infinity
\* of the sign of x, and 0 / 0 is NaN
JsDivide(totalCarbon, years) ==
    IF years > 0 THEN Fin(totalCarbon * 1000, years)
    ELSE IF years < 0 THEN Fin(-(totalCarbon * 1000), -years)
    ELSE IF totalCarbon > 0 THEN NotFinite("inf")
    ELSE IF totalCarbon < 0 THEN NotFinite("ninf")
    ELSE NotFinite("nan")

\* x * areaInHectares
JsTimes(x, area) ==
    IF x.k = "fin" THEN Fin(x.n * area, x.d)
    ELSE IF x.k = "nan" \/ area = 0 THEN NotFinite("nan")
    ELSE IF (x.k = "inf") = (area > 0) THEN NotFinite("inf")
    ELSE NotFinite("ninf")

\* parseFloat(x.toFixed(10)): toFixed leaves NaN and the infinities as they are
JsToFixed10(x) ==
    IF x.k = "fin" THEN Fin(10 * RoundDiv(x.n, 10 * x.d), 1) ELSE x

\* the product of the rounded carbon, not the rounded product
RoundedThenTimes(carbonPerHectare, areaInHectares) ==
    JsTimes(JsToFixed10(carbonPerHectare), areaInHectares)

calculateTotalCarbonForArea(carbonPerHectare, areaInHectares) ==
    JsToFixed10(JsTimes(carbonPerHectare, areaInHectares))

calculateAreaCarbonMetrics(totalCarbon, areaInHectares, years) ==
    LET averagePerYearPerHectare == JsDivide(totalCarbon, years) IN
    [thrown |-> FALSE,
     totalCarbonPerHectare |-> JsToFixed10(Fin(totalCarbon, 1)),
     totalCarbonForArea |-> calculateTotalCarbonForArea(Fin(totalCarbon, 1), areaInHectares),
     averagePerYearPerHectare |-> JsToFixed10(averagePerYearPerHectare),
     averagePerYearForArea |-> calculateTotalCarbonForArea(averagePerYearPerHectare, areaInHectares)]

----------------------------------------------------------------------------
(* carbon-charts.ts: extractStepCarbonChanges and its helpers *)

ErrNoRows == "No simulation rows to chart"
ErrNoColumns == "Required carbon chart columns not found in simulation CSV"
ErrNotEnough == "Not enough data points to chart carbon change per step"
ErrNoChanges == "No step changes found in selected analysis period"
ErrNoChartData == "No chart data available"
ErrTypeError == "TypeError"

toStepPoint(year, stepInYear) == (year * 12) + (stepInYear - 1)

\* a header that contains "year"
IsYearHeaderContaining(h) == Includes(ToLowerCase(h), PatYear)

IsYearHeader(h) == ToLowerCase(h) = PatYear
IsStepHeader(h) == Includes(ToLowerCase(h), PatStep)
IsChartTreesHeader(h) == Includes(h, PatTrees) /\ Includes(h, PatUnit)
\* the debris column taken whatever its unit
IsDebrisHeaderAnyUnit(h) == Includes(h, PatDebris)

IsDebrisHeader(h) == Includes(h, PatDebris) /\ Includes(h, PatUnit)

YearIndex(headers) ==
    FindIndex([k \in 1..Len(headers) |-> IsYearHeader(headers[k].chars)])
StepIndex(headers) ==
    FindIndex([k \in 1..Len(headers) |-> IsStepHeader(headers[k].chars)])

\* the unit of the tree-carbon column of the charts not looked at
TreesIndexAnyUnit(headers) ==
    FindIndex([k \in 1..Len(headers) |-> Includes(headers[k].chars, PatTrees)])

TreesIndex(headers) ==
    FindIndex([k \in 1..Len(headers) |-> IsChartTreesHeader(headers[k].chars)])
DebrisIndex(headers) ==
    FindIndex([k \in 1..Len(headers) |-> IsDebrisHeader(headers[k].chars)])

\* parseInt(values[index], 10); the year and step fields hold whole numbers
ParseIntAt(values, index) == ParseFloatAt(values, index)

\* the points pushed by the loop over lines i..Len(lines) (i is one-based)
RECURSIVE ChartPoints(_, _, _, _, _, _)
ChartPoints(lines, i, yearIndex, stepIndex, treesIndex, debrisIndex) ==
    IF i > Len(lines) THEN <<>>
    ELSE LET values == SplitLine(lines[i])
             year == ParseIntAt(values, yearIndex)
             step == ParseIntAt(values, stepIndex)
             trees == ParseFloatAt(values, treesIndex)
             debris == ParseFloatAt(values, debrisIndex)
             rest == ChartPoints(lines, i + 1, yearIndex, stepIndex, treesIndex, debrisIndex)
         IN  IF year.nan \/ step.nan \/ trees.nan \/ debris.nan THEN rest
             ELSE <<[year |-> year.v, step |-> step.v,
                     point |-> toStepPoint(year.v, step.v),
                     combinedCarbon |-> trees.v + debris.v]>> \o rest

\* a.point - b.point > 0: a is to come after b
\* a.point - b.point >= 0: ties are moved as well
ComesAfterOrTies(a, b) == a.point - b.point >= 0

ComesAfter(a, b) == a.point - b.point > 0

\* p put into a sorted sequence after every element it does not precede
RECURSIVE InsertPoint(_, _)
InsertPoint(sorted, p) ==
    IF sorted = <<>> THEN <<p>>
    ELSE IF ComesAfter(Head(sorted), p) THEN <<p>> \o sorted
    ELSE <<Head(sorted)>> \o InsertPoint(Tail(sorted), p)

\* points.sort((a, b) => a.point - b.point): Array.prototype.sort is stable
RECURSIVE SortPoints(_)
SortPoints(points) ==
    IF points = <<>> THEN <<>>
    ELSE InsertPoint(SortPoints(SubSeq(points, 1, Len(points) - 1)), points[Len(points)])

\* the first of the two, whichever is smaller
FirstOf(a, b) == a

Min(a, b) == IF a < b THEN a ELSE b
Max(a, b) == IF a > b THEN a ELSE b

\* a window that leaves its start point out
OutsideWindowOpenStart(point, startPoint, endPoint) == point <= startPoint \/ point > endPoint

\* current.point < startPoint || current.point > endPoint
OutsideWindow(point, startPoint, endPoint) == point < startPoint \/ point > endPoint

\* the changes pushed by the loop over points i..Len(points), i >= 2 one-based
RECURSIVE StepChanges(_, _, _, _)
StepChanges(points, i, startPoint, endPoint) ==
    IF i > Len(points) THEN <<>>
    ELSE LET current == points[i]
             previous == points[i - 1]
             rest == StepChanges(points, i + 1, startPoint, endPoint)
         IN  IF OutsideWindow(current.point, startPoint, endPoint) THEN rest
             ELSE <<[label |-> <<current.year, current.step>>,
                     delta |-> ToFixed10(current.combinedCarbon - previous.combinedCarbon)]>>
                  \o rest

\* no point at all
NoPoints(points) == Len(points) < 1

\* points.length < 2
TooFewPoints(points) == Len(points) < 2

ChartFailure(error) ==
    [thrown |-> FALSE, fields |-> {"success", "error"}, success |-> FALSE,
     error |-> error, data |-> <<>>]

ChartSuccess(changes) ==
    [thrown |-> FALSE, fields |-> {"success", "data"}, success |-> TRUE,
     error |-> "", data |-> changes]

\* JSON.stringify(undefined) is undefined, and undefined.split throws
ChartThrown == [thrown |-> TRUE, fields |-> {}, success |-> FALSE,
                error |-> ErrTypeError, data |-> <<>>]

\* typeof simulationData === 'string' ? simulationData : JSON.stringify(...),
\* split into lines, the blank ones dropped
ChartLines(resp) == NonBlankLines(resp.lines)

\* simulationData is the data of the response; range is a CarbonAnalysisRange
extractStepCarbonChanges(resp, range) ==
    IF resp.kind = "undefined" THEN ChartThrown
    ELSE LET lines == ChartLines(resp) IN
    IF Len(lines) < 2 THEN ChartFailure(ErrNoRows)
    ELSE LET headers == SplitLine(lines[1])
             yearIndex == YearIndex(headers)
             stepIndex == StepIndex(headers)
             treesIndex == TreesIndex(headers)
             debrisIndex == DebrisIndex(headers)
         IN
    IF yearIndex = -1 \/ stepIndex = -1 \/ treesIndex = -1 \/ debrisIndex = -1
    THEN ChartFailure(ErrNoColumns)
    ELSE LET points == SortPoints(ChartPoints(lines, 2, yearIndex, stepIndex, treesIndex, debrisIndex)) IN
    IF TooFewPoints(points) THEN ChartFailure(ErrNotEnough)
    ELSE LET a == toStepPoint(range.startYear, range.startStepInYear)
             b == toStepPoint(range.endYear, range.endStepInYear)
             changes == StepChanges(points, 2, Min(a, b), Max(a, b))
         IN
    IF Len(changes) = 0 THEN ChartFailure(ErrNoChanges)
    ELSE ChartSuccess(changes)

----------------------------------------------------------------------------
(* carbon-charts.ts: the two charts *)

TitleChange == "Carbon Change Per Step in Year"
TitleTotal == "Total Carbon Sequestered by Step in Year"

\* Math.floor(n / d)
FloorDiv(n, d) == n \div d

\* Math.ceil(n / d) for n >= 0, d > 0
CeilDiv(n, d) == (n + d - 1) \div d

getSharedTickIndices(seriesLength) ==
    IF seriesLength < 1 THEN {}
    ELSE LET xTickStep == Max(1, CeilDiv(seriesLength, 8)) IN
         {index \in 0..(seriesLength - 1) :
            index % xTickStep = 0 \/ index = seriesLength - 1}

\* runningTotal summed and rounded change by change
RECURSIVE RunningTotalRounded(_, _)
RunningTotalRounded(changes, k) ==
    IF k = 0 THEN 0 ELSE ToFixed10(RunningTotalRounded(changes, k - 1) + changes[k].delta)

\* runningTotal after the first k changes
RECURSIVE RunningTotal(_, _)
RunningTotal(changes, k) ==
    IF k = 0 THEN 0 ELSE RunningTotal(changes, k - 1) + changes[k].delta

\* an argument that is an array, and one that is undefined
Defined(items) == [defined |-> TRUE, items |-> items]
Undefined == [defined |-> FALSE, items |-> <<>>]

\* !changes || changes.length === 0
NoChanges(changes) == ~changes.defined \/ Len(changes.items) = 0

buildCumulativeSequestrationSeries(changes) ==
    IF NoChanges(changes) THEN <<>>
    ELSE [k \in 1..Len(changes.items) |->
            [label |-> changes.items[k].label,
             total |-> ToFixed10(RunningTotal(changes.items, k))]]

\* a container element: what its innerHTML shows.  series are the labelled
\* values drawn, ticks the labels written under the x axis
Blank == [kind |-> "blank", title |-> "", message |-> "", series |-> <<>>, ticks |-> <<>>]

EmptyChart(title, message) ==
    [kind |-> "empty", title |-> title, message |-> message, series |-> <<>>, ticks |-> <<>>]

\* the labels of the points whose zero-based index is a tick index, in order
RECURSIVE TickLabels(_, _, _)
TickLabels(labels, k, tickIndices) ==
    IF k > Len(labels) THEN <<>>
    ELSE (IF (k - 1) \in tickIndices THEN <<labels[k]>> ELSE <<>>)
         \o TickLabels(labels, k + 1, tickIndices)

DrawnChart(title, labels, values, tickIndices) ==
    [kind |-> "chart", title |-> title, message |-> "",
     series |-> [k \in 1..Len(labels) |-> [label |-> labels[k], value |-> values[k]]],
     ticks |-> TickLabels(labels, 1, tickIndices)]

\* an empty chart that always shows the default message
setEmptyChartDefault(container, title, message) ==
    IF ~container.present THEN container
    ELSE [container EXCEPT !.content = EmptyChart(title, ErrNoChartData)]

\* container is [present, content]; a null container is left alone
setEmptyChart(container, title, message) ==
    IF ~container.present THEN container
    ELSE [container EXCEPT !.content = EmptyChart(title, message)]

renderCarbonChangeChart(container, changes, sharedTickIndices) ==
    IF ~container.present THEN container
    ELSE IF Len(changes) = 0 THEN setEmptyChart(container, TitleChange, ErrNoChartData)
    ELSE [container EXCEPT !.content =
            DrawnChart(TitleChange, [k \in 1..Len(changes) |-> changes[k].label],
                       [k \in 1..Len(changes) |-> changes[k].delta], sharedTickIndices)]

renderCarbonTotalChart(container, totals, sharedTickIndices) ==
    IF ~container.present THEN container
    ELSE IF Len(totals) = 0 THEN setEmptyChart(container, TitleTotal, ErrNoChartData)
    ELSE [container EXCEPT !.content =
            DrawnChart(TitleTotal, [k \in 1..Len(totals) |-> totals[k].label],
                       [k \in 1..Len(totals) |-> totals[k].total], sharedTickIndices)]

RenderResult(thrown, success, error) ==
    [thrown |-> thrown,
     fields |-> IF thrown THEN {} ELSE IF success THEN {"success"} ELSE {"success", "error"},
     success |-> success, error |-> error]

\* the value returned and the two containers after the call
renderStepSequestrationCharts(resp, range, page) ==
    LET chartDataResult == extractStepCarbonChanges(resp, range) IN
    IF chartDataResult.thrown
    THEN [ret |-> RenderResult(TRUE, FALSE, chartDataResult.error), page |-> page]
    ELSE IF ~chartDataResult.success \/ "data" \notin chartDataResult.fields
    THEN LET message == IF chartDataResult.error /= "" THEN chartDataResult.error
                        ELSE ErrNoChartData
         IN  [ret |-> RenderResult(FALSE, FALSE, message),
              page |-> [change |-> setEmptyChart(page.change, TitleChange, message),
                        total |-> setEmptyChart(page.total, TitleTotal, message)]]
    ELSE LET sharedTickIndices == getSharedTickIndices(Len(chartDataResult.data))
             cumulativeTotals == buildCumulativeSequestrationSeries(Defined(chartDataResult.data))
         IN  [ret |-> RenderResult(FALSE, TRUE, ""),
              page |-> [change |-> renderCarbonChangeChart(page.change, chartDataResult.data, sharedTickIndices),
                        total |-> renderCarbonTotalChart(page.total, cumulativeTotals, sharedTickIndices)]]

----------------------------------------------------------------------------
(* The inputs the operations are called with *)

HdrYear == <<"Y", "e", "a", "r">>
HdrStep == <<"S", "t", "e", "p", " ", "i", "n", " ", "Y", "e", "a", "r">>
HdrDecYearPadded == <<" ", "D", "e", "c", ".", " ", "Y", "e", "a", "r", " ">>
HdrTrees == <<"C", " ", "m", "a", "s", "s", " ", "o", "f", " ", "t", "r", "e", "e", "s", " ", "(", "t", "C", "/", "h", "a", ")">>
HdrTreesKg == <<"C", " ", "m", "a", "s", "s", " ", "o", "f", " ", "t", "r", "e", "e", "s", " ", "(", "k", "g", ")">>
HdrDebris == <<"C", " ", "m", "a", "s", "s", " ", "o", "f", " ", "f", "o", "r", "e", "s", "t", " ", "d", "e", "b", "r", "i", "s", " ", "(", "t", "C", "/", "h", "a", ")">>
HdrDay == <<"D", "a", "y">>
TxtNA == <<"n", "/", "a">>
TxtJson == <<"{", "}">>

HeaderFull == <<Txt(HdrYear), Txt(HdrStep), Txt(HdrDecYearPadded), Txt(HdrTrees), Txt(HdrDebris)>>
HeaderNoDecYear == <<Txt(HdrYear), Txt(HdrStep), Txt(HdrDay), Txt(HdrTrees), Txt(HdrDebris)>>
HeaderTreesKg == <<Txt(HdrYear), Txt(HdrStep), Txt(HdrDecYearPadded), Txt(HdrTreesKg), Txt(HdrDebris)>>
BlankLine == <<Txt(<<" ">>)>>

\* a data line under HeaderFull
Row(year, step, decYear, trees, debris) ==
    <<Num(year), Num(step), Num(decYear), Num(trees), Num(debris)>>

RowJan == Row(2024, 1, 2024000, 104, 20)
RowFeb == Row(2024, 2, 2024083, 115, 21)
RowMar == Row(2024, 3, 2024167, 126, 20)
\* the decimal year of RowFeb once more, with another carbon mass
RowFebAgain == Row(2024, 2, 2024083, 85, 56)
\* a decimal year that is no number
RowBadYear == <<Num(2024), Num(4), Txt(TxtNA), Num(137), Num(23)>>
\* a line cut short after its second field
RowShort == <<Num(2024), Num(5)>>

FirstLines == {HeaderFull, HeaderNoDecYear, HeaderTreesKg, BlankLine}
RowSet == {RowJan, RowFeb, RowMar, RowFebAgain, RowBadYear, RowShort, BlankLine}
OpsFirstLines == {HeaderFull, HeaderNoDecYear}
OpsRowSet == {RowJan, RowFeb, RowMar, RowBadYear}

\* the sequences of at most n lines of rows
LineSeqs(rows, n) == UNION {[1..k -> rows] : k \in 0..n}

StringData(success, lines) == [success |-> success, kind |-> "string", lines |-> lines]
\* no data at all (the field is undefined)
UndefinedData(success) == [success |-> success, kind |-> "undefined", lines |-> <<>>]
\* data that is an object: its JSON text is one line
ObjectData(success) == [success |-> success, kind |-> "object", lines |-> <<<<Txt(TxtJson)>>>>]

Responses(firstLines, rows, n) ==
    {StringData(TRUE, <<>>), StringData(FALSE, <<>>)}
    \cup {StringData(TRUE, <<f>> \o r) : f \in firstLines, r \in LineSeqs(rows, n)}
    \cup {StringData(FALSE, <<HeaderFull>> \o r) : r \in LineSeqs(rows, n)}
    \cup {UndefinedData(b) : b \in BOOLEAN}
    \cup {ObjectData(b) : b \in BOOLEAN}

\* the decimal years asked for, in thousandths; 2024.125 lies midway
\* between 2024.083 and 2024.167
Targets == {2024000, 2024125, 2025000}

Years == 2023..(2023 + NumYears - 1)
Months == 0..13
OpsMonths == {0, 1, 2, 12, 13}

Steps == {<<2024, 1>>, <<2024, 2>>, <<2024, 3>>}

Container(present) == [present |-> present, content |-> Blank]
Pages == {[change |-> Container(c), total |-> Container(t)] : c, t \in BOOLEAN}

NoResponse == UndefinedData(FALSE)
\* a SpatialDataUpdater nothing was asked of
NoUpdater ==
    [subscriptionKey |-> <<>>, production |-> FALSE, inFlight |-> {}, requests |-> <<>>,
     timer |-> FALSE, delays |-> 0]
NoCall == [op |-> "none"]
NoResult == [thrown |-> FALSE]

----------------------------------------------------------------------------
(* The calls *)

CallSequestration(resps) ==
    /\ pc = "idle"
    /\ \E resp \in resps, startDate, endDate \in Targets :
        /\ response' = resp
        /\ call' = [op |-> "calculateCarbonSequestration",
                    startDate |-> startDate, endDate |-> endDate]
        /\ result' = [ret |-> calculateCarbonSequestration(resp, startDate, endDate),
                      thrown |-> FALSE]
    /\ pc' = "done"
    /\ UNCHANGED <<earlier, dom, updater>>

CallDate ==
    /\ pc = "idle"
    /\ \E year \in Years, month \in Months :
        /\ call' = [op |-> "dateToDecimalYear", year |-> year, month |-> month]
        /\ result' = dateToDecimalYear(year, month)
    /\ pc' = "done"
    /\ UNCHANGED <<response, earlier, dom, updater>>

\* a second call of dateToDecimalYear, the first one being remembered
CallDateAgain ==
    /\ pc = "done"
    /\ call.op = "dateToDecimalYear"
    /\ earlier.call.op = "none"
    /\ \E year \in Years, month \in Months :
        /\ call' = [op |-> "dateToDecimalYear", year |-> year, month |-> month]
        /\ result' = dateToDecimalYear(year, month)
    /\ earlier' = [call |-> call, result |-> result]
    /\ UNCHANGED <<response, pc, dom, updater>>

CallAverage ==
    /\ pc = "idle"
    /\ \E resp \in Responses(OpsFirstLines, OpsRowSet, MaxOpsRows),
          startMonth, endMonth \in OpsMonths, endYear \in {2024, 2025} :
        /\ response' = resp
        /\ call' = [op |-> "calculateAverageAnnualSequestration",
                    startYear |-> 2024, startMonth |-> startMonth,
                    endYear |-> endYear, endMonth |-> endMonth]
        /\ result' = calculateAverageAnnualSequestration(resp, 2024, startMonth, endYear, endMonth)
    /\ pc' = "done"
    /\ UNCHANGED <<earlier, dom, updater>>

CallAreaMetrics ==
    /\ pc = "idle"
    /\ \E totalCarbon \in {-250, 0, 344}, area \in {0, 3}, years \in {-500, 0, 80, 3000} :
        /\ call' = [op |-> "calculateAreaCarbonMetrics", totalCarbon |-> totalCarbon,
                    areaInHectares |-> area, years |-> years]
        /\ result' = calculateAreaCarbonMetrics(totalCarbon, area, years)
    /\ pc' = "done"
    /\ UNCHANGED <<response, earlier, dom, updater>>

CallRender ==
    /\ pc = "idle"
    /\ \E resp \in Responses(OpsFirstLines, OpsRowSet, MaxOpsRows), s, e \in Steps :
        LET range == [startYear |-> s[1], startStepInYear |-> s[2],
                      endYear |-> e[1], endStepInYear |-> e[2]]
            out == renderStepSequestrationCharts(resp, range, dom)
        IN  /\ response' = resp
            /\ call' = [op |-> "renderStepSequestrationCharts", range |-> range]
            /\ result' = out.ret
            /\ dom' = out.page
    /\ pc' = "done"
    /\ UNCHANGED <<earlier, updater>>

----------------------------------------------------------------------------
(* The specifications *)

InitCommon ==
    /\ response = NoResponse
    /\ pc = "idle"
    /\ call = NoCall
    /\ result = NoResult
    /\ earlier = [call |-> NoCall, result |-> NoResult]
    /\ updater = NoUpdater

\* calculateCarbonSequestration on every payload of at most MaxRows rows
Init ==
    /\ InitCommon
    /\ dom = [change |-> Container(TRUE), total |-> Container(TRUE)]

Next == CallSequestration(Responses(FirstLines, RowSet, MaxRows))

Spec == Init /\ [][Next]_vars

\* every public operation, on payloads of at most MaxOpsRows rows
NextOps ==
    \/ CallSequestration(Responses(OpsFirstLines, OpsRowSet, MaxOpsRows))
    \/ CallDate
    \/ CallAverage
    \/ CallAreaMetrics
    \/ CallRender

InitOps ==
    /\ InitCommon
    /\ dom \in Pages

SpecOps == InitOps /\ [][NextOps]_vars

\* dateToDecimalYear called once or twice
NextDate == CallDate \/ CallDateAgain

SpecDate == Init /\ [][NextDate]_vars

----------------------------------------------------------------------------
(* What the claims speak of, stated on the payload itself *)

Done(op) == pc = "done" /\ call.op = op

SeqDone == Done("calculateCarbonSequestration")
AvgDone == Done("calculateAverageAnnualSequestration")
DateDone == Done("dateToDecimalYear")

NumericFields == {"totalCarbon", "startCarbon", "endCarbon", "averagePerYear", "years"}

\* the non-blank lines of the payload, the first being the header
PayloadLines == NonBlankLines(response.lines)

LeastOf(S) == CHOOSE k \in S : \A j \in S : k <= j

\* the field of a line read for a role: the first column of the role
FieldOf(line, columns) ==
    IF LeastOf(columns) <= Len(line) THEN line[LeastOf(columns)] ELSE Txt(<<>>)

\* the payload as the claims speak of it: the columns of the header that
\* hold the Dec. Year and the tree carbon, the data lines in which both
\* fields are numbers (the usable rows), and the two numbers of each
Payload ==
    LET lines == PayloadLines
        names == IF lines = <<>> THEN <<>>
                 ELSE [k \in 1..Len(lines[1]) |-> Trim(lines[1][k].chars)]
        decYearColumns == {k \in 1..Len(names) : Includes(names[k], PatDecYear)}
        treesColumns ==
            {k \in 1..Len(names) : Includes(names[k], PatTrees) /\ Includes(names[k], PatUnit)}
        found == decYearColumns /= {} /\ treesColumns /= {}
        usable ==
            IF ~found THEN {}
            ELSE {i \in 2..Len(lines) :
                    FieldOf(lines[i], decYearColumns).num /\ FieldOf(lines[i], treesColumns).num}
    IN  [lines |-> lines,
         hasHeader |-> lines /= <<>>,
         decYearColumns |-> decYearColumns,
         treesColumns |-> treesColumns,
         columnsFound |-> found,
         usable |-> usable,
         decYear |-> [i \in usable |-> FieldOf(lines[i], decYearColumns).val],
         carbon |-> [i \in usable |-> FieldOf(lines[i], treesColumns).val]]

\* i is the first of the usable rows of p nearest to target
FirstNearest(p, i, target) ==
    /\ i \in p.usable
    /\ \A j \in p.usable :
        \/ Abs(p.decYear[j] - target) > Abs(p.decYear[i] - target)
        \/ Abs(p.decYear[j] - target) = Abs(p.decYear[i] - target) /\ j >= i

----------------------------------------------------------------------------
(* The claims *)

\* C1: startCarbon (endCarbon) of a successful calculateCarbonSequestration
\* is the tree-carbon value, to ten decimals, of the usable row whose
\* Dec. Year is nearest to startDate (endDate), the first such row in input
\* order when several are equally near; the two are resolved independently.
C1_NearestFirstRow ==
    (SeqDone /\ result.ret.success) =>
        LET p == Payload IN
        /\ \E i \in p.usable :
            /\ FirstNearest(p, i, call.startDate)
            /\ result.ret.startCarbon = ToFixed10(p.carbon[i])
        /\ \E i \in p.usable :
            /\ FirstNearest(p, i, call.endDate)
            /\ result.ret.endCarbon = ToFixed10(p.carbon[i])

\* a success where two usable rows with different carbon values are equally
\* near to startDate and nearer than any other, and the earlier one is used
C1_Witness ==
    /\ SeqDone /\ result.ret.success
    /\ LET p == Payload IN
       \E i, j \in p.usable :
        /\ i < j
        /\ FirstNearest(p, i, call.startDate)
        /\ Abs(p.decYear[j] - call.startDate) = Abs(p.decYear[i] - call.startDate)
        /\ ToFixed10(p.carbon[i]) /= ToFixed10(p.carbon[j])
        /\ result.ret.startCarbon = ToFixed10(p.carbon[i])

\* C2: every successful result has totalCarbon = endCarbon - startCarbon to
\* within one unit of the tenth decimal, and totalCarbon = 0 when start and
\* end resolve to the same row.
C2_TotalIsDifference ==
    (SeqDone /\ result.ret.success) =>
        LET p == Payload IN
        /\ Abs(result.ret.totalCarbon - (result.ret.endCarbon - result.ret.startCarbon)) <= 10
        /\ (\E i \in p.usable :
                FirstNearest(p, i, call.startDate) /\ FirstNearest(p, i, call.endDate))
            => result.ret.totalCarbon = 0

\* a success over two different rows where the rounding of the three values
\* shows: the difference of the rounded values is not the rounded difference
C2_Witness ==
    /\ SeqDone /\ result.ret.success
    /\ result.ret.totalCarbon /= 0
    /\ result.ret.totalCarbon /= result.ret.endCarbon - result.ret.startCarbon

\* C3, as claimed: calculateCarbonSequestration fails whenever the payload
\* has fewer than 2 usable data rows.
C3_FailsBelowTwoUsableRows ==
    (SeqDone /\ Cardinality(Payload.usable) < 2) => ~result.ret.success

\* C3, amended: calculateCarbonSequestration fails whenever the payload has
\* no usable data row; a payload with one usable row or more, in a
\* successful response, succeeds, and with exactly one usable row start and
\* end both resolve to it and totalCarbon is 0.
C3_FailsWithoutUsableRow ==
    SeqDone =>
        LET p == Payload IN
        /\ p.usable = {} => ~result.ret.success
        /\ (p.usable /= {} /\ response.success) => result.ret.success
        /\ (p.usable = {} /\ response.success /\ p.columnsFound)
            => result.ret.error \in {ErrNoDataRows, ErrNoValues}
        /\ (Cardinality(p.usable) = 1 /\ result.ret.success)
            => /\ result.ret.totalCarbon = 0
               /\ result.ret.startCarbon = result.ret.endCarbon

\* a header followed by exactly one line, a usable row: a success
C3_Witness ==
    /\ SeqDone
    /\ Len(response.lines) = 2
    /\ Cardinality(Payload.usable) = 1
    /\ result.ret.success
    /\ result.ret.totalCarbon = 0

\* C4: when the response is unsuccessful, or its data absent or empty,
\* calculateCarbonSequestration returns the failure for an invalid response,
\* with no numeric field, before any line is split into fields; a payload of
\* blank lines only fails likewise before its lines are split.
C4_EmptyResponseFails ==
    SeqDone =>
        /\ (~response.success \/ response.kind = "undefined" \/ response.lines = <<>>)
            => /\ ~result.ret.success
               /\ result.ret.error = ErrInvalidResponse
               /\ result.ret.fields \cap NumericFields = {}
               /\ result.ret.parsed = 0
        /\ PayloadLines = <<>>
            => /\ ~result.ret.success
               /\ result.ret.fields \cap NumericFields = {}
               /\ result.ret.parsed = 0

\* an unsuccessful response whose payload has two usable rows or more
C4_Witness ==
    /\ SeqDone
    /\ ~response.success
    /\ Cardinality(Payload.usable) >= 2
    /\ ~result.ret.success
    /\ result.ret.error = ErrInvalidResponse

\* C5: when the header has no column containing "Dec. Year", or none
\* containing both "C mass of trees" and "tC/ha", calculateCarbonSequestration
\* returns a failure with an error message and none of totalCarbon,
\* startCarbon, endCarbon, whatever the data rows hold; for a valid response
\* with data lines the message names the missing column.
C5_MissingColumnFails ==
    SeqDone =>
        LET p == Payload IN
        (p.hasHeader /\ ~p.columnsFound) =>
            /\ ~result.ret.success
            /\ result.ret.fields = {"success", "error"}
            /\ result.ret.error /= ""
            /\ (response.success /\ Len(p.lines) >= 2)
                => result.ret.error =
                     (IF p.decYearColumns = {} THEN ErrNoDecYear ELSE ErrNoCarbon)

\* a valid response with a header that has the tree carbon in another unit,
\* followed by rows that hold numbers in every column
C5_Witness ==
    /\ SeqDone
    /\ response.success
    /\ LET p == Payload IN
       /\ p.hasHeader /\ p.decYearColumns /= {} /\ p.treesColumns = {}
       /\ \E i \in 2..Len(p.lines) :
            /\ Len(p.lines[i]) = Len(p.lines[1])
            /\ \A k \in 1..Len(p.lines[i]) : p.lines[i][k].num
    /\ result.ret.error = ErrNoCarbon

\* C6, as claimed: no public operation of the analysis core raises to its
\* caller.
C6_NothingRaises == pc = "done" => ~result.thrown

\* C6, amended: calculateCarbonSequestration, calculateAverageAnnualSequestration
\* and calculateAreaCarbonMetrics never raise, the first two reporting every
\* failure (an out-of-range month included) as a returned success = false
\* with an error message; dateToDecimalYear raises when the month is outside
\* 1..12, and renderStepSequestrationCharts raises when the simulation data
\* is undefined and otherwise returns a success or failure value.
C6_RaisesOnlyFromDateAndRender ==
    pc = "done" =>
        /\ call.op \in {"calculateCarbonSequestration",
                        "calculateAverageAnnualSequestration",
                        "calculateAreaCarbonMetrics"} => ~result.thrown
        /\ SeqDone => (result.ret.success <=> result.ret.error = "")
        /\ AvgDone => /\ "success" \in result.fields
                      /\ result.success <=> result.error = ""
        /\ DateDone => (result.thrown <=> call.month \notin 1..12)
        /\ Done("renderStepSequestrationCharts") =>
            /\ result.thrown <=> response.kind = "undefined"
            /\ ~result.thrown => /\ "success" \in result.fields
                                 /\ result.success <=> result.error = ""

\* calculateAverageAnnualSequestration called with a month outside 1..12:
\* the Error of dateToDecimalYear comes back as a returned failure
C6_Witness ==
    /\ AvgDone
    /\ call.endMonth \notin 1..12
    /\ ~result.thrown
    /\ ~result.success
    /\ result.error = ErrMonth

\* C7: dateToDecimalYear fails with the month error exactly when month is
\* outside 1..12, and calculateAverageAnnualSequestration given a start or
\* end month outside 1..12 returns success = false with none of
\* totalCarbon, averagePerYear, years.
C7_InvalidMonth ==
    /\ DateDone =>
        /\ result.thrown <=> (call.month < 1 \/ call.month > 12)
        /\ result.thrown => result.error = ErrMonth
    /\ (AvgDone /\ (call.startMonth \notin 1..12 \/ call.endMonth \notin 1..12)) =>
        /\ ~result.success
        /\ result.fields = {"success", "error"}

\* an out-of-range start month with a payload that has usable rows and an
\* end month in range
C7_Witness ==
    /\ AvgDone
    /\ call.startMonth = 0
    /\ call.endMonth \in 1..12
    /\ response.success
    /\ Payload.usable /= {}
    /\ ~result.success
    /\ result.fields \cap NumericFields = {}

\* (year, month) comes before (year2, month2)
Before(year, month, year2, month2) ==
    year < year2 \/ (year = year2 /\ month < month2)

\* C8: for every month in 1..12, dateToDecimalYear(year, month) is, in
\* thousandths, 1000 * year + round(1000 * (month - 1) / 12), so 2024.0 for
\* (2024, 1) and 2024.083 for (2024, 2); and of two calls the one with the
\* earlier (year, month) returns the smaller value.
C8_DecimalYear ==
    (DateDone /\ call.month \in 1..12) =>
        /\ ~result.thrown
        /\ result.v = 1000 * call.year + RoundDiv(1000 * (call.month - 1), 12)
        /\ (call.year = 2024 /\ call.month = 1) => result.v = 2024000
        /\ (call.year = 2024 /\ call.month = 2) => result.v = 2024083
        /\ (earlier.call.op = "dateToDecimalYear" /\ ~earlier.result.thrown) =>
            (Before(earlier.call.year, earlier.call.month, call.year, call.month)
                <=> earlier.result.v < result.v)

\* December of one year, then January of the next
C8_Witness ==
    /\ DateDone
    /\ earlier.call.op = "dateToDecimalYear"
    /\ earlier.call.month = 12
    /\ call.month = 1
    /\ call.year = earlier.call.year + 1
    /\ ~earlier.result.thrown /\ ~result.thrown
    /\ earlier.result.v < result.v

\* C9: with both months in 1..12 and (endYear, endMonth) not later than
\* (startYear, startMonth), calculateAverageAnnualSequestration succeeds
\* whenever calculateCarbonSequestration does on the two decimal years, and
\* then returns averagePerYear = 0 with the totalCarbon of
\* calculateCarbonSequestration.
C9_ZeroAverageWhenNotLater ==
    (/\ AvgDone
     /\ call.startMonth \in 1..12 /\ call.endMonth \in 1..12
     /\ ~Before(call.startYear, call.startMonth, call.endYear, call.endMonth)) =>
        LET seq == calculateCarbonSequestration(response,
                        dateToDecimalYear(call.startYear, call.startMonth).v,
                        dateToDecimalYear(call.endYear, call.endMonth).v)
        IN  /\ ~result.thrown
            /\ result.success <=> seq.success
            /\ result.success =>
                /\ result.averagePerYear = 0
                /\ result.totalCarbon = seq.totalCarbon

\* an end month before the start month, with carbon lost between them
C9_Witness ==
    /\ AvgDone
    /\ call.startYear = call.endYear
    /\ call.endMonth \in 1..12
    /\ call.endMonth < call.startMonth
    /\ result.success
    /\ result.totalCarbon /= 0
    /\ result.averagePerYear = 0

\* endDecimalYear - startDecimalYear of the call, in thousandths
ElapsedOfCall ==
    DecimalYearValue(call.endYear, call.endMonth)
        - DecimalYearValue(call.startYear, call.startMonth)

\* C10, as claimed: the years of a successful
\* calculateAverageAnnualSequestration is endDecimalYear - startDecimalYear,
\* the quantity totalCarbon was divided by.
C10_YearsIsElapsed ==
    (AvgDone /\ result.success) => result.years = ElapsedOfCall

\* C10, amended: the years returned is endDecimalYear - startDecimalYear
\* rounded to 2 decimals, whereas averagePerYear is totalCarbon divided by
\* the unrounded difference (rounded to 10 decimals) when that is positive;
\* so years is within 0.005 of the divisor and need not equal it.
C10_YearsIsRoundedElapsed ==
    (AvgDone /\ result.success) =>
        /\ result.years % 10 = 0
        /\ Abs(result.years - ElapsedOfCall) < 5
        /\ ElapsedOfCall > 0 =>
            /\ result.averagePerYear % 10 = 0
            /\ Abs(result.averagePerYear * ElapsedOfCall - 1000 * result.totalCarbon)
                 <= 5 * ElapsedOfCall

\* January to February: 0.083 years divide totalCarbon, 0.08 is returned
C10_Witness ==
    /\ AvgDone /\ result.success
    /\ ElapsedOfCall = 83
    /\ result.years = 80
    /\ result.totalCarbon /= 0
    /\ result.averagePerYear /= 0

AreaDone == Done("calculateAreaCarbonMetrics")

\* C11: calculateAreaCarbonMetrics never fails and returns, each rounded to
\* 10 decimals, totalCarbon, totalCarbon * areaInHectares, totalCarbon /
\* years and (totalCarbon / years) * areaInHectares, the two ForArea values
\* being rounded after the multiplication; with years = 0 nothing is
\* guarded: the average per hectare is an infinity of the sign of
\* totalCarbon, or NaN when totalCarbon is 0.
C11_AreaMetrics ==
    AreaDone =>
        LET tc == call.totalCarbon
            area == call.areaInHectares
            years == call.years
            sgn == IF years < 0 THEN -1 ELSE 1
        IN  /\ ~result.thrown
            /\ result.totalCarbonPerHectare = Fin(10 * RoundDiv(tc, 10), 1)
            /\ result.totalCarbonForArea = Fin(10 * RoundDiv(tc * area, 10), 1)
            /\ years /= 0 =>
                /\ result.averagePerYearPerHectare
                     = Fin(10 * RoundDiv(sgn * 1000 * tc, sgn * 10 * years), 1)
                /\ result.averagePerYearForArea
                     = Fin(10 * RoundDiv(sgn * 1000 * tc * area, sgn * 10 * years), 1)
            /\ years = 0 =>
                /\ result.averagePerYearPerHectare.k
                     = (IF tc > 0 THEN "inf" ELSE IF tc < 0 THEN "ninf" ELSE "nan")
                /\ result.averagePerYearForArea.k /= "fin"

\* the average for the area is not the area times the rounded average
C11_Witness ==
    /\ AreaDone
    /\ call.years > 0
    /\ result.averagePerYearForArea.k = "fin"
    /\ result.averagePerYearForArea.n
         /= result.averagePerYearPerHectare.n * call.areaInHectares


----------------------------------------------------------------------------
(* extractStepCarbonChanges called on its own *)

HdrYearOfPlanting == <<"Y", "e", "a", "r", " ", "p", "l", "a", "n", "t", "e", "d">>
HdrStepShort == <<"S", "t", "e", "p">>
HdrDebrisKg == <<"C", " ", "m", "a", "s", "s", " ", "o", "f", " ", "f", "o", "r", "e", "s", "t", " ", "d", "e", "b", "r", "i", "s", " ", "(", "k", "g", ")">>

\* headers that lack one of the four columns of the charts
HeaderNoYear == <<Txt(HdrYearOfPlanting), Txt(HdrStep), Txt(HdrDecYearPadded), Txt(HdrTrees), Txt(HdrDebris)>>
HeaderNoStep == <<Txt(HdrYear), Txt(HdrStepShort), Txt(HdrDecYearPadded), Txt(HdrTrees), Txt(HdrDebris)>>
HeaderDebrisKg == <<Txt(HdrYear), Txt(HdrStep), Txt(HdrDecYearPadded), Txt(HdrTrees), Txt(HdrDebrisKg)>>
\* a sixth column after the five of HeaderFull
HeaderExtra == HeaderFull \o <<Txt(HdrDay)>>

\* tree carbon that is no number
RowBadTrees == <<Num(2024), Num(3), Num(2024167), Txt(TxtNA), Num(22)>>
\* RowMar cut short after its fourth field
RowNoDebris == <<Num(2024), Num(3), Num(2024167), Num(126)>>

ChartHeaders == {HeaderFull, HeaderExtra}
ChartRowSet == {RowMar, RowFeb, RowFebAgain, RowBadTrees, RowNoDebris}
LackingHeaders == {HeaderNoYear, HeaderNoStep, HeaderTreesKg, HeaderDebrisKg}
LackingRowSet == {RowJan, RowFeb}

ChartResponses ==
    {StringData(TRUE, <<>>), UndefinedData(TRUE), ObjectData(TRUE)}
    \cup {StringData(TRUE, <<f>> \o r) : f \in ChartHeaders, r \in LineSeqs(ChartRowSet, MaxChartRows)}
    \cup {StringData(TRUE, <<f>> \o r) : f \in LackingHeaders, r \in LineSeqs(LackingRowSet, MaxChartRows)}
    \cup {StringData(TRUE, <<HeaderNoDecYear>> \o r) : r \in LineSeqs(LackingRowSet, MaxChartRows)}

RangeOf(s, e) ==
    [startYear |-> s[1], startStepInYear |-> s[2], endYear |-> e[1], endStepInYear |-> e[2]]

CallExtract ==
    /\ pc = "idle"
    /\ \E resp \in ChartResponses, s, e \in Steps :
        /\ response' = resp
        /\ call' = [op |-> "extractStepCarbonChanges", range |-> RangeOf(s, e)]
        /\ result' = extractStepCarbonChanges(resp, RangeOf(s, e))
    /\ pc' = "done"
    /\ UNCHANGED <<earlier, dom, updater>>

\* the two operations that read the payload, on the payloads of the charts
NextChart ==
    \/ CallExtract
    \/ CallSequestration(ChartResponses)

SpecChart == Init /\ [][NextChart]_vars

ExtractDone == Done("extractStepCarbonChanges")


\* the payload as the claims on the charts speak of it: the columns of the
\* header that hold each of the four roles, the data lines in which the
\* four fields are numbers (the usable records), in input order, and the
\* year, step and combined carbon of each
ChartPayload ==
    LET lines == PayloadLines
        names == IF lines = <<>> THEN <<>>
                 ELSE [k \in 1..Len(lines[1]) |-> Trim(lines[1][k].chars)]
        yearColumns == {k \in 1..Len(names) : ToLowerCase(names[k]) = PatYear}
        stepColumns == {k \in 1..Len(names) : Includes(ToLowerCase(names[k]), PatStep)}
        treesColumns ==
            {k \in 1..Len(names) : Includes(names[k], PatTrees) /\ Includes(names[k], PatUnit)}
        debrisColumns ==
            {k \in 1..Len(names) : Includes(names[k], PatDebris) /\ Includes(names[k], PatUnit)}
        found == /\ yearColumns /= {} /\ stepColumns /= {}
                 /\ treesColumns /= {} /\ debrisColumns /= {}
        usable ==
            IF ~found THEN {}
            ELSE {i \in 2..Len(lines) :
                    /\ FieldOf(lines[i], yearColumns).num
                    /\ FieldOf(lines[i], stepColumns).num
                    /\ FieldOf(lines[i], treesColumns).num
                    /\ FieldOf(lines[i], debrisColumns).num}
    IN  [lines |-> lines,
         hasHeader |-> lines /= <<>>,
         lacking |-> {r \in {"year", "step", "trees", "debris"} :
                        \/ r = "year" /\ yearColumns = {}
                        \/ r = "step" /\ stepColumns = {}
                        \/ r = "trees" /\ treesColumns = {}
                        \/ r = "debris" /\ debrisColumns = {}},
         usable |-> usable,
         year |-> [i \in usable |-> FieldOf(lines[i], yearColumns).val],
         step |-> [i \in usable |-> FieldOf(lines[i], stepColumns).val],
         carbon |-> [i \in usable |-> FieldOf(lines[i], treesColumns).val
                                        + FieldOf(lines[i], debrisColumns).val]]

\* a failure that carries an error message and no data
FailsWith(error) ==
    /\ ~result.thrown
    /\ ~result.success
    /\ result.fields = {"success", "error"}
    /\ result.error = error

\* C12, as claimed: extractStepCarbonChanges fails with the missing-column
\* error, returning no data, for every payload whose header lacks one of the
\* Year, Step in Year, tree-carbon or debris-carbon columns, however many
\* data rows follow the header.
C12_MissingColumnAnyRows ==
    ExtractDone =>
        LET p == ChartPayload IN
        (p.hasHeader /\ p.lacking /= {}) => FailsWith(ErrNoColumns)

\* C12, amended: a payload whose header lacks one of the four columns fails
\* without data; the error is the missing-column one when at least one
\* non-blank line follows the header, and "No simulation rows to chart" when
\* none does, the lines being counted before the header is read.
C12_MissingColumnFails ==
    ExtractDone =>
        LET p == ChartPayload IN
        (p.hasHeader /\ p.lacking /= {}) =>
            FailsWith(IF Len(p.lines) >= 2 THEN ErrNoColumns ELSE ErrNoRows)

\* only the debris column is lacking, and two rows hold numbers throughout
C12_Witness ==
    /\ ExtractDone
    /\ LET p == ChartPayload IN
       /\ p.lacking = {"debris"}
       /\ Len(p.lines) = 3
       /\ \A i \in 2..3 : \A k \in 1..Len(p.lines[i]) : p.lines[i][k].num
    /\ result.error = ErrNoColumns


\* year * 12 + (step - 1) of the usable record on line i of p
PointOf(p, i) == 12 * p.year[i] + (p.step[i] - 1)

\* the lines of the usable records of p, in input order
UsableLines(p) ==
    [r \in 1..Cardinality(p.usable) |->
        CHOOSE i \in p.usable : Cardinality({j \in p.usable : j < i}) = r - 1]

\* year * 12 + (step - 1) of the record a change is labelled with
PointOfLabel(label) == 12 * label[1] + (label[2] - 1)

\* C13: the sort of extractStepCarbonChanges puts the usable records, in
\* whatever order the rows come, in ascending order of
\* stepPoint = year * 12 + (step - 1), records of equal stepPoint keeping
\* their input order; and the changes emitted are in non-decreasing
\* stepPoint order.
C13_StableAscendingOrder ==
    ExtractDone =>
        LET p == ChartPayload
            n == Cardinality(p.usable)
            input == UsableLines(p)
            sorted == SortPoints([r \in 1..n |-> [line |-> input[r], point |-> PointOf(p, input[r])]])
        IN  /\ Len(sorted) = n
            /\ {sorted[r].line : r \in 1..n} = p.usable
            /\ \A r, s \in 1..n : r < s =>
                \/ sorted[r].point < sorted[s].point
                \/ sorted[r].point = sorted[s].point /\ sorted[r].line < sorted[s].line
            /\ result.success =>
                \A k, l \in 1..Len(result.data) : k < l =>
                    PointOfLabel(result.data[k].label) <= PointOfLabel(result.data[l].label)

\* rows that come out of order, two of them of one stepPoint with different
\* carbon, and two changes emitted
C13_Witness ==
    /\ ExtractDone /\ result.success
    /\ Len(result.data) >= 2
    /\ LET p == ChartPayload IN
       /\ \E i, j \in p.usable : i < j /\ PointOf(p, i) > PointOf(p, j)
       /\ \E i, j \in p.usable :
            i < j /\ PointOf(p, i) = PointOf(p, j) /\ p.carbon[i] /= p.carbon[j]


\* the range of the call with its start and end pairs swapped
SwappedRange ==
    [startYear |-> call.range.endYear, startStepInYear |-> call.range.endStepInYear,
     endYear |-> call.range.startYear, endStepInYear |-> call.range.startStepInYear]

\* C14: extractStepCarbonChanges gives the same outcome (the same failure,
\* or the same labels and deltas) when the start and the end of the range
\* are swapped.
C14_DirectionAgnostic ==
    ExtractDone => result = extractStepCarbonChanges(response, SwappedRange)

\* a success for a range given end first
C14_Witness ==
    /\ ExtractDone /\ result.success
    /\ PointOfLabel(<<call.range.startYear, call.range.startStepInYear>>)
         > PointOfLabel(<<call.range.endYear, call.range.endStepInYear>>)
    /\ Len(result.data) >= 2


\* the lines of the usable records of p in sorted order: ascending by
\* stepPoint, and by input order among equal stepPoints
SortedLines(p) ==
    [r \in 1..Cardinality(p.usable) |->
        CHOOSE i \in p.usable :
            Cardinality({j \in p.usable :
                            \/ PointOf(p, j) < PointOf(p, i)
                            \/ PointOf(p, j) = PointOf(p, i) /\ j < i}) = r - 1]

\* the two ends of the window of the call, the smaller first
WindowOfCall ==
    LET a == 12 * call.range.startYear + (call.range.startStepInYear - 1)
        b == 12 * call.range.endYear + (call.range.endStepInYear - 1)
    IN  IF a <= b THEN <<a, b>> ELSE <<b, a>>

\* the sorted positions (one-based) after the first whose record lies in
\* the window of the call
EmittedPositions(p, sorted) ==
    {r \in 2..Len(sorted) :
        /\ WindowOfCall[1] <= PointOf(p, sorted[r])
        /\ PointOf(p, sorted[r]) <= WindowOfCall[2]}

\* C15: extractStepCarbonChanges emits, in sorted order, exactly one change
\* for each record after the first of the sorted series whose stepPoint lies
\* in [startPoint, endPoint], both ends included; the change is labelled
\* with the year and step of that record and its delta is, to 10 decimals,
\* combinedCarbon of the record minus combinedCarbon of the record just
\* before it in the sorted series, inside the window or not.  The first
\* record of the sorted series is never emitted.
C15_OneChangePerRecordInWindow ==
    (ExtractDone /\ ~result.thrown) =>
        LET p == ChartPayload
            sorted == SortedLines(p)
            emitted == EmittedPositions(p, sorted)
        IN  /\ Len(result.data) = Cardinality(emitted)
            /\ \A r \in emitted :
                LET k == Cardinality({s \in emitted : s <= r}) IN
                /\ result.data[k].label = <<p.year[sorted[r]], p.step[sorted[r]]>>
                /\ result.data[k].delta
                     = 10 * RoundDiv(p.carbon[sorted[r]] - p.carbon[sorted[r - 1]], 10)

\* one change only, for a record at the start of the window, taken against
\* a record before the window
C15_Witness ==
    /\ ExtractDone /\ result.success
    /\ Len(result.data) = 1
    /\ result.data[1].delta /= 0
    /\ PointOfLabel(result.data[1].label) = WindowOfCall[1]
    /\ LET p == ChartPayload IN
       \E i \in p.usable : PointOf(p, i) < WindowOfCall[1]


\* C16: on a header that has the four columns, extractStepCarbonChanges
\* fails for want of data when fewer than 2 usable records exist, whatever
\* the window, and fails with "No step changes found in selected analysis
\* period" when 2 or more usable records exist and no change falls in the
\* window; a success carries at least one change.
C16_InsufficientBeforeNoRowsInRange ==
    ExtractDone =>
        LET p == ChartPayload
            emitted == EmittedPositions(p, SortedLines(p))
        IN  /\ (p.lacking = {} /\ Cardinality(p.usable) < 2) =>
                FailsWith(IF Len(p.lines) >= 2 THEN ErrNotEnough ELSE ErrNoRows)
            /\ (Cardinality(p.usable) >= 2 /\ emitted = {}) => FailsWith(ErrNoChanges)
            /\ result.success =>
                /\ Len(result.data) >= 1
                /\ result.fields = {"success", "data"}

\* one usable record, which lies outside the window
C16_Witness ==
    /\ ExtractDone
    /\ result.error = ErrNotEnough
    /\ LET p == ChartPayload IN
       /\ Cardinality(p.usable) = 1
       /\ Len(p.lines) > 2
       /\ \A i \in p.usable : PointOf(p, i) > WindowOfCall[2]


----------------------------------------------------------------------------
(* buildCumulativeSequestrationSeries and getSharedTickIndices called on
   their own *)

\* deltas in units of 10^-11: 3 and 4 are lost when rounded alone and kept
\* when summed
Deltas == {60, -10, 3, 4}
Labels == {<<2024, 1>>, <<2024, 2>>}

ChangeSeqs ==
    UNION {[1..n -> [label : Labels, delta : Deltas]] : n \in 0..MaxChanges}

CallCumulative ==
    /\ pc = "idle"
    /\ \E changes \in {Undefined} \cup {Defined(c) : c \in ChangeSeqs} :
        /\ call' = [op |-> "buildCumulativeSequestrationSeries", changes |-> changes]
        /\ result' = [thrown |-> FALSE, series |-> buildCumulativeSequestrationSeries(changes)]
    /\ pc' = "done"
    /\ UNCHANGED <<response, earlier, dom, updater>>

CallTicks ==
    /\ pc = "idle"
    /\ \E seriesLength \in -1..MaxSeriesLength :
        /\ call' = [op |-> "getSharedTickIndices", seriesLength |-> seriesLength]
        /\ result' = [thrown |-> FALSE, indices |-> getSharedTickIndices(seriesLength)]
    /\ pc' = "done"
    /\ UNCHANGED <<response, earlier, dom, updater>>

NextSeries == CallCumulative \/ CallTicks

SpecSeries == Init /\ [][NextSeries]_vars

CumulativeDone == Done("buildCumulativeSequestrationSeries")
TicksDone == Done("getSharedTickIndices")

\* the sum of the deltas of the first k of changes
RECURSIVE SumOfDeltas(_, _)
SumOfDeltas(changes, k) ==
    IF k = 0 THEN 0 ELSE changes[k].delta + SumOfDeltas(changes, k - 1)

\* C17: buildCumulativeSequestrationSeries returns a series as long as its
\* input, with the same labels in the same order, whose k-th total is the
\* sum of the deltas up to and including the k-th, to 10 decimals; an empty
\* or absent input gives an empty series.
C17_PrefixSums ==
    CumulativeDone =>
        LET changes == call.changes.items IN
        /\ ~result.thrown
        /\ ~call.changes.defined => result.series = <<>>
        /\ Len(result.series) = Len(changes)
        /\ \A k \in 1..Len(changes) :
            /\ result.series[k].label = changes[k].label
            /\ result.series[k].total = 10 * RoundDiv(SumOfDeltas(changes, k), 10)

\* deltas 0.6 and -0.1 give totals 0.6 and 0.5
C17_Witness ==
    /\ CumulativeDone
    /\ Len(call.changes.items) = 2
    /\ call.changes.items[1].delta = 60 /\ call.changes.items[2].delta = -10
    /\ result.series[1].total = 60 /\ result.series[2].total = 50
    /\ result.series[1].label = call.changes.items[1].label


\* max(1, ceil(n / 8)): the least step s >= 1 with 8 * s >= n
TickStep(n) == CHOOSE s \in 1..(n + 1) : 8 * s >= n /\ \A t \in 1..(s - 1) : 8 * t < n

\* C18: for n >= 1, getSharedTickIndices(n) is the set of the indices i of
\* 0..n-1 with i mod step = 0, together with n-1, where
\* step = max(1, ceil(n / 8)); it holds 0 and n-1, nothing outside 0..n-1,
\* and at most 9 indices.  For n < 1 it is empty.
C18_TickIndices ==
    TicksDone =>
        LET n == call.seriesLength IN
        /\ ~result.thrown
        /\ n < 1 => result.indices = {}
        /\ n >= 1 =>
            /\ result.indices = {i \in 0..(n - 1) : i % TickStep(n) = 0} \cup {n - 1}
            /\ 0 \in result.indices /\ (n - 1) \in result.indices
            /\ result.indices \subseteq 0..(n - 1)
            /\ Cardinality(result.indices) <= 9

\* n = 17 gives {0, 3, 6, 9, 12, 15, 16}
C18_Witness ==
    /\ TicksDone
    /\ call.seriesLength = 17
    /\ result.indices = {0, 3, 6, 9, 12, 15, 16}


----------------------------------------------------------------------------
(* Rows that are short or malformed, for the two operations that read the
   payload *)

ReadDone == (SeqDone \/ ExtractDone) /\ response.kind = "string"

\* what the caller sees of the result of calculateCarbonSequestration
Visible(ret) ==
    [fields |-> ret.fields, success |-> ret.success, error |-> ret.error,
     totalCarbon |-> ret.totalCarbon, startCarbon |-> ret.startCarbon,
     endCarbon |-> ret.endCarbon, dataPoints |-> ret.dataPoints]

\* the outcome of the call
OutcomeOfCall == IF SeqDone THEN Visible(result.ret) ELSE result

\* the outcome of the same call on a payload of the given lines
OutcomeOn(lines) ==
    IF SeqDone
    THEN Visible(calculateCarbonSequestration(StringData(response.success, lines),
                                              call.startDate, call.endDate))
    ELSE extractStepCarbonChanges(StringData(TRUE, lines), call.range)

\* the lines of the payload whose required fields are all numbers
UsableOfCall == IF SeqDone THEN Payload.usable ELSE ChartPayload.usable

\* the data lines that have fewer fields than the header
ShortLines(lines) == {i \in 2..Len(lines) : Len(lines[i]) < Len(lines[1])}

\* a line that is not blank and holds no number
JunkLine == <<Txt(TxtNA)>>

\* lines with those of S replaced by a line that gives no record
WithJunk(lines, S) == [i \in 1..Len(lines) |-> IF i \in S THEN JunkLine ELSE lines[i]]

\* lines with every short line completed by empty fields
Completed(lines) ==
    [i \in 1..Len(lines) |->
        IF i \in ShortLines(lines)
        THEN lines[i] \o [k \in 1..(Len(lines[1]) - Len(lines[i])) |-> Txt(<<>>)]
        ELSE lines[i]]

\* C19, as claimed: a data row with fewer fields than the header has
\* columns contributes no record to calculateCarbonSequestration or
\* extractStepCarbonChanges, even when its fields cover every required
\* column and are numbers: the outcome is that of the payload with a line
\* without any number in its place.
C19_ShortRowsSkipped ==
    ReadDone =>
        LET lines == PayloadLines IN
        OutcomeOfCall = OutcomeOn(WithJunk(lines, ShortLines(lines)))

\* C19, amended: the length of a row plays no part.  A row shorter than the
\* header is read like the same row completed with empty fields: it gives
\* no record when a required column lies beyond its end or holds no number,
\* and it gives a record like any other row when its fields cover every
\* required column and are numbers.
C19_ShortRowsReadLikeCompletedRows ==
    ReadDone =>
        LET lines == PayloadLines
            short == ShortLines(lines)
            usable == UsableOfCall
            outcome == OutcomeOfCall
        IN  /\ outcome = OutcomeOn(Completed(lines))
            /\ outcome = OutcomeOn(WithJunk(lines, short \ usable))
            /\ (ExtractDone /\ Cardinality(short \cap usable) >= 2)
                => result.error /= ErrNotEnough
            /\ (SeqDone /\ response.success /\ short \cap usable /= {})
                => result.ret.success

\* every row is shorter than the header, and changes are charted from them
C19_Witness ==
    /\ ExtractDone /\ response.kind = "string"
    /\ result.success
    /\ LET lines == PayloadLines IN
       /\ ShortLines(lines) = 2..Len(lines)
       /\ \E k \in 1..Len(result.data) : result.data[k].delta /= 0


\* the header of the call has every column the operation requires
ColumnsOfCallFound == IF SeqDone THEN Payload.columnsFound ELSE ChartPayload.lacking = {}

\* the data lines in which a required field is no number
MalformedLines(lines) == (2..Len(lines)) \ UsableOfCall

\* lines with those of S taken out
Without(lines, S) ==
    LET kept == (1..Len(lines)) \ S IN
    [r \in 1..Cardinality(kept) |->
        lines[CHOOSE i \in kept : Cardinality({j \in kept : j < i}) = r - 1]]

\* C20, as claimed: a data row in which a required field is no number is
\* dropped whole: taking such a row out of the payload (or putting it in),
\* wherever it stands, leaves the outcome of calculateCarbonSequestration
\* and extractStepCarbonChanges unchanged.
C20_MalformedRowsChangeNothing ==
    (ReadDone /\ ColumnsOfCallFound) =>
        LET lines == PayloadLines
            outcome == OutcomeOfCall
        IN  \A i \in MalformedLines(lines) : outcome = OutcomeOn(Without(lines, {i}))

\* C20, amended: taking a malformed row out (or putting it in) never
\* changes success into failure or back, nor any value returned, and leaves
\* the whole outcome unchanged as long as a data line remains; when the
\* only data line is malformed the call fails for want of usable rows, and
\* without it it fails for want of data lines, with another message.
C20_MalformedRowsChangeOnlyTheMessage ==
    (ReadDone /\ ColumnsOfCallFound) =>
        LET lines == PayloadLines
            outcome == OutcomeOfCall
        IN  \A i \in MalformedLines(lines) :
                LET other == OutcomeOn(Without(lines, {i})) IN
                /\ outcome.success = other.success
                /\ Len(lines) > 2 => outcome = other
                /\ Len(lines) = 2 =>
                    /\ ~other.success
                    /\ other.error = (IF SeqDone THEN ErrNoDataRows ELSE ErrNoRows)
                    /\ outcome.error = (IF SeqDone THEN ErrNoValues ELSE ErrNotEnough)

\* a malformed row between two usable rows of a success
C20_Witness ==
    /\ ExtractDone /\ response.kind = "string"
    /\ result.success
    /\ LET lines == PayloadLines IN
       /\ Len(lines) = 4
       /\ MalformedLines(lines) = {3}
       /\ Len(lines[3]) = Len(lines[1])


----------------------------------------------------------------------------
(* The resolution of the columns, on its own *)

HdrYearUpper == <<"Y", "E", "A", "R">>

\* the names a header is made of
ColumnNames == {HdrYear, HdrYearUpper, HdrStep, HdrDecYearPadded, HdrTrees, HdrTreesKg, HdrDebris}

\* the header lines of at most MaxColumns columns, no name twice
HeaderLines ==
    UNION {{[k \in 1..n |-> Txt(h[k])] :
                h \in {g \in [1..n -> ColumnNames] : \A a, b \in 1..n : a /= b => g[a] /= g[b]}} :
           n \in 0..MaxColumns}

\* lines[0].split(',').map(h => h.trim()) and the four findIndex of the charts
ResolveChartColumns ==
    /\ pc = "idle"
    /\ \E line \in HeaderLines :
        LET headers == SplitLine(line) IN
        /\ call' = [op |-> "resolveChartColumns", line |-> line]
        /\ result' = [thrown |-> FALSE,
                      index |-> [year |-> YearIndex(headers), step |-> StepIndex(headers),
                                 trees |-> TreesIndex(headers), debris |-> DebrisIndex(headers)]]
    /\ pc' = "done"
    /\ UNCHANGED <<response, earlier, dom, updater>>

\* the same for the two findIndex of calculateCarbonSequestration
ResolveSequestrationColumns ==
    /\ pc = "idle"
    /\ \E line \in HeaderLines :
        LET headers == SplitLine(line) IN
        /\ call' = [op |-> "resolveSequestrationColumns", line |-> line]
        /\ result' = [thrown |-> FALSE,
                      index |-> [decYear |-> DecYearIndex(headers), carbon |-> CarbonIndex(headers)]]
    /\ pc' = "done"
    /\ UNCHANGED <<response, earlier, dom, updater>>

NextColumns == ResolveChartColumns \/ ResolveSequestrationColumns

SpecColumns == Init /\ [][NextColumns]_vars

ChartColumnsDone == Done("resolveChartColumns")
ColumnsDone == ChartColumnsDone \/ Done("resolveSequestrationColumns")

\* the roles resolved by the call
RolesOfCall == IF ChartColumnsDone THEN {"year", "step", "trees", "debris"} ELSE {"decYear", "carbon"}

\* the rule of a role holds of a column name (trimmed)
RelatedTo(role, name) ==
    CASE role = "decYear" -> Includes(name, PatDecYear)
      [] role = "year" -> ToLowerCase(name) = PatYear
      [] role = "step" -> Includes(ToLowerCase(name), PatStep)
      [] role \in {"trees", "carbon"} -> Includes(name, PatTrees) /\ Includes(name, PatUnit)
      [] role = "debris" -> Includes(name, PatDebris) /\ Includes(name, PatUnit)

\* the columns (one-based) of a header line that a role's rule holds of
ColumnsOf(role, line) == {k \in 1..Len(line) : RelatedTo(role, Trim(line[k].chars))}

\* a header line with its columns i and j exchanged
Swap(line, i, j) ==
    [k \in 1..Len(line) |-> IF k = i THEN line[j] ELSE IF k = j THEN line[i] ELSE line[k]]

\* the index (zero-based) a role resolves to on a header line
IndexOn(role, line) ==
    LET headers == SplitLine(line) IN
    CASE role = "decYear" -> DecYearIndex(headers)
      [] role = "carbon" -> CarbonIndex(headers)
      [] role = "year" -> YearIndex(headers)
      [] role = "step" -> StepIndex(headers)
      [] role = "trees" -> TreesIndex(headers)
      [] role = "debris" -> DebrisIndex(headers)

\* C21: each role resolves to a column its rule holds of whenever the
\* header has one, and to the same index after any two columns that the
\* rule does not hold of have changed places.
C21_ReorderingUnrelatedColumns ==
    ColumnsDone =>
        \A role \in RolesOfCall :
            LET related == ColumnsOf(role, call.line)
                unrelated == (1..Len(call.line)) \ related
            IN  /\ related = {} <=> result.index[role] = -1
                /\ related /= {} => (result.index[role] + 1) \in related
                /\ \A i, j \in unrelated :
                    IndexOn(role, Swap(call.line, i, j)) = result.index[role]

\* the four columns of the charts found, the tree carbon between two
\* columns of other names
C21_Witness ==
    /\ ChartColumnsDone
    /\ \A role \in RolesOfCall : result.index[role] /= -1
    /\ \E i, j \in (1..Len(call.line)) \ ColumnsOf("trees", call.line) :
        i < result.index.trees + 1 /\ result.index.trees + 1 < j


\* C22: every role resolves to one column or to none (-1); the Year role
\* resolves to the first column whose name is "year" whatever the case of
\* its letters, never to a column that only contains it, such as
\* "Dec. Year" or "Step in Year"; so in a header that holds the three,
\* Year, Step in Year and Dec. Year resolve to three different columns.
C22_YearIsExactMatch ==
    ChartColumnsDone =>
        LET names == [k \in 1..Len(call.line) |-> Trim(call.line[k].chars)]
            exact == {k \in 1..Len(names) : ToLowerCase(names[k]) = PatYear}
            year == result.index.year
            step == result.index.step
            decYear == IndexOn("decYear", call.line)
        IN  /\ \A role \in RolesOfCall : result.index[role] \in -1..(Len(names) - 1)
            /\ exact = {} => year = -1
            /\ exact /= {} => year + 1 = LeastOf(exact)
            /\ year /= -1 =>
                /\ ~Includes(names[year + 1], PatDecYear)
                /\ ~Includes(ToLowerCase(names[year + 1]), PatStep)
            /\ (year /= -1 /\ step /= -1 /\ decYear /= -1) =>
                Cardinality({year, step, decYear}) = 3

\* "Dec. Year" and "Step in Year" stand before "YEAR", which stands before
\* "Year"
C22_Witness ==
    /\ ChartColumnsDone
    /\ Len(call.line) >= 4
    /\ result.index.year >= 2
    /\ result.index.step < result.index.year /\ result.index.step /= -1
    /\ IndexOn("decYear", call.line) \in 0..(result.index.year - 1)
    /\ call.line[result.index.year + 1].chars = HdrYearUpper
    /\ \E k \in (result.index.year + 2)..Len(call.line) : call.line[k].chars = HdrYear


----------------------------------------------------------------------------
(* What each operation reads of the payload *)

\* the columns (one-based) the operation of the call reads: for each of its
\* roles, the first column of the header the role's rule holds of
ColumnsRead(header) ==
    LET roles == IF SeqDone THEN {"decYear", "carbon"} ELSE {"year", "step", "trees", "debris"}
    IN  {LeastOf(ColumnsOf(role, header)) : role \in {r \in roles : ColumnsOf(r, header) /= {}}}

\* the payload with every column but those of K given another name and
\* filled with text that is no number
Scrubbed(lines, K) ==
    [i \in 1..Len(lines) |->
        [k \in 1..Len(lines[i]) |->
            IF k \in K THEN lines[i][k]
            ELSE IF i = 1 THEN Txt(HdrDay) ELSE Txt(TxtNA)]]

\* C23: each operation reads only the columns of its own roles:
\* calculateCarbonSequestration gives the same result when every column but
\* the Dec. Year and tree-carbon ones is renamed and filled with text, and
\* extractStepCarbonChanges the same result when every column but Year,
\* Step in Year, tree and debris carbon is; so the first does not need the
\* columns of the charts, and the second succeeds without a Dec. Year
\* column.
C23_OnlyOwnColumnsRead ==
    (ReadDone /\ PayloadLines /= <<>>) =>
        LET lines == PayloadLines
            outcome == OutcomeOfCall
        IN  /\ outcome = OutcomeOn(Scrubbed(lines, ColumnsRead(lines[1])))
            /\ (ExtractDone /\ ColumnsOf("decYear", lines[1]) = {}) =>
                LET p == ChartPayload IN
                (Cardinality(p.usable) >= 2 /\ EmittedPositions(p, SortedLines(p)) /= {})
                    => result.success

\* calculateCarbonSequestration succeeds under a header without the debris
\* column of the charts
C23_Witness ==
    /\ SeqDone /\ response.kind = "string"
    /\ result.ret.success
    /\ result.ret.totalCarbon /= 0
    /\ ChartPayload.lacking = {"debris"}

\* extractStepCarbonChanges succeeds under a header without Dec. Year
C23_WitnessCharts ==
    /\ ExtractDone /\ response.kind = "string"
    /\ result.success
    /\ ColumnsOf("decYear", PayloadLines[1]) = {}


----------------------------------------------------------------------------
(* part_000: SpatialDataUpdater.  A request is in flight from the fetch
   that issues it to the resumption of the function that awaits it; the
   steps of an async method are its runs from one await to the next *)

ErrKeyRequired == "Subscription key is required. Please set it first."
ErrProxyFailed == "Proxy request failed"
ErrSimulationFailed == "Simulation failed"
ErrFetchRejected == "fetch rejected"
ErrProduction == "API proxy not available in production. This feature requires a local development server."

UrlUpdateSpatial == "/api/update-spatial"
UrlRunSimulation == "/api/run-simulation"

\* key.trim()
setSubscriptionKey(u, key) == [u EXCEPT !.subscriptionKey = Trim(key)]

\* !this.subscriptionKey
MissingKey(u) == u.subscriptionKey = <<>>

\* a response object; of is the point it was made for
Response(success, error, of) == [success |-> success, error |-> error, of |-> of]

KeyFailure(of) == Response(FALSE, ErrKeyRequired, of)

\* fetch(url, ...): the request is issued
Fetch(u, url, point) ==
    [u EXCEPT !.inFlight = @ \cup {[url |-> url, point |-> point]},
              !.requests = Append(@, [url |-> url, point |-> point])]

\* the awaited fetch has settled and the function resumes
Settled(u, url, point) == [u EXCEPT !.inFlight = @ \ {[url |-> url, point |-> point]}]

\* how a request can end: JSON with success true or false, a status that
\* is not ok, or a rejected fetch
Outcomes == {"success", "failure", "not ok", "rejected"}

\* what submitSpatialUpdate returns once its fetch has settled
SpatialUpdateOf(outcome, of) ==
    CASE outcome = "success" -> Response(TRUE, "", of)
      [] outcome = "failure" -> Response(FALSE, "", of)
      [] outcome = "not ok" -> Response(FALSE, ErrProxyFailed, of)
      [] outcome = "rejected" -> Response(FALSE, ErrFetchRejected, of)

\* what runPlotSimulation returns once its fetch has settled
SimulationOf(outcome, of) ==
    CASE outcome = "success" -> Response(TRUE, "", of)
      [] outcome = "failure" -> Response(FALSE, "", of)
      [] outcome = "not ok" -> Response(FALSE, ErrSimulationFailed, of)
      [] outcome = "rejected" -> Response(FALSE, ErrFetchRejected, of)

\* the state of a running method: where it is, its arguments and loop
\* index, what it has gathered or returned, and the updater
Frame(at, c, r, u) == [pc |-> at, call |-> c, result |-> r, updater |-> u]

\* no result at all
NoResults == <<>>

\* the return of batchUpdateSpatialData when no key is set
BatchKeyFailure == <<KeyFailure("none")>>

\* a delay after every point, the last one too
HasNextOrIsLast(c) == c.i < Len(c.points)

\* i < points.length - 1
HasNext(c) == c.i < Len(c.points) - 1

\* batchUpdateSpatialData from results.push(result) to its next await, or
\* to its return
BatchPushed(u, c, results) ==
    IF HasNext(c)
    THEN Frame("batch: delay", c, [thrown |-> FALSE, results |-> results],
               [u EXCEPT !.timer = TRUE])
    ELSE Frame("done", c, [thrown |-> FALSE, results |-> results], u)

\* batchUpdateSpatialData from the call of updatePointSpatialData for
\* points[i] to its next await: without a key the point fails at once
BatchPoint(u, c, results) ==
    IF MissingKey(u) THEN BatchPushed(u, c, Append(results, KeyFailure(c.points[c.i + 1])))
    ELSE Frame("batch: request", c, [thrown |-> FALSE, results |-> results],
               Fetch(u, UrlUpdateSpatial, c.points[c.i + 1]))

\* batchUpdateSpatialData from its call to its first await
batchUpdateSpatialData(u, points) ==
    LET c == [op |-> "batchUpdateSpatialData", points |-> points, i |-> 0] IN
    IF MissingKey(u) THEN Frame("done", c, [thrown |-> FALSE, results |-> BatchKeyFailure], u)
    ELSE IF Len(points) = 0 THEN Frame("done", c, [thrown |-> FALSE, results |-> <<>>], u)
    ELSE BatchPoint(u, c, <<>>)

\* the result of updateAndSimulate: simulation is a field only when held
UpdateOnly(spatialUpdate) ==
    [thrown |-> FALSE, fields |-> {"spatialUpdate"}, spatialUpdate |-> spatialUpdate,
     simulation |-> Response(FALSE, "", "none")]
UpdateAndSimulation(spatialUpdate, simulation) ==
    [thrown |-> FALSE, fields |-> {"spatialUpdate", "simulation"},
     spatialUpdate |-> spatialUpdate, simulation |-> simulation]

\* the simulation run whatever the spatial update returned
NeverFailed(spatialUpdate) == FALSE

\* !spatialUpdate.success
UpdateFailed(spatialUpdate) == ~spatialUpdate.success

\* updateAndSimulate from its call to its first await
updateAndSimulate(u, point) ==
    LET c == [op |-> "updateAndSimulate", point |-> point] IN
    IF MissingKey(u) THEN Frame("done", c, UpdateOnly(KeyFailure(point)), u)
    ELSE Frame("simulate: update", c, NoResult, Fetch(u, UrlUpdateSpatial, point))

\* updateAndSimulate from the return of updatePointSpatialData to its next
\* await, or to its return: runSimulation fails at once without a key, and
\* runPlotSimulation throws before its fetch in production
UpdateReturned(u, c, spatialUpdate) ==
    IF UpdateFailed(spatialUpdate) THEN Frame("done", c, UpdateOnly(spatialUpdate), u)
    ELSE IF MissingKey(u)
    THEN Frame("done", c, UpdateAndSimulation(spatialUpdate, KeyFailure(c.point)), u)
    ELSE IF u.production
    THEN Frame("done", c,
               UpdateAndSimulation(spatialUpdate, Response(FALSE, ErrProduction, c.point)), u)
    ELSE Frame("simulate: simulation", c, UpdateOnly(spatialUpdate),
               Fetch(u, UrlRunSimulation, c.point))


\* the keys setSubscriptionKey is given: none, blanks, a key
Keys == {<<>>, <<" ">>, <<"k">>}
PointIds == {"A", "B"}
PointLists == UNION {[1..n -> PointIds] : n \in 0..MaxPoints}

Awaiting == {"batch: request", "batch: delay", "simulate: update", "simulate: simulation"}

\* the method goes on to the frame f
Become(f) ==
    /\ pc' = f.pc
    /\ call' = f.call
    /\ result' = f.result
    /\ updater' = f.updater
    /\ UNCHANGED <<response, earlier, dom>>

\* setSubscriptionKey, before a method is called or while one awaits
SetSubscriptionKey ==
    /\ pc \in {"idle"} \cup Awaiting
    /\ \E key \in Keys : updater' = setSubscriptionKey(updater, key)
    /\ UNCHANGED <<response, pc, call, result, earlier, dom>>

CallBatch ==
    /\ pc = "idle"
    /\ \E points \in PointLists : Become(batchUpdateSpatialData(updater, points))

\* the fetch of the point settles and submitSpatialUpdate returns
BatchRequestSettles ==
    /\ pc = "batch: request"
    /\ \E outcome \in Outcomes :
        LET point == call.points[call.i + 1] IN
        Become(BatchPushed(Settled(updater, UrlUpdateSpatial, point), call,
                           Append(result.results, SpatialUpdateOf(outcome, point))))

\* the 100 ms are over: i++, and the next point is taken up
BatchDelayElapses ==
    /\ pc = "batch: delay"
    /\ Become(BatchPoint([updater EXCEPT !.timer = FALSE, !.delays = @ + 1],
                         [call EXCEPT !.i = @ + 1], result.results))

CallUpdateAndSimulate ==
    /\ pc = "idle"
    /\ \E point \in PointIds : Become(updateAndSimulate(updater, point))

\* the fetch of the spatial update settles and updatePointSpatialData returns
UpdateSettles ==
    /\ pc = "simulate: update"
    /\ \E outcome \in Outcomes :
        Become(UpdateReturned(Settled(updater, UrlUpdateSpatial, call.point), call,
                              SpatialUpdateOf(outcome, call.point)))

\* the fetch of the simulation settles and runSimulation returns
SimulationSettles ==
    /\ pc = "simulate: simulation"
    /\ \E outcome \in Outcomes :
        Become(Frame("done", call,
                     UpdateAndSimulation(result.spatialUpdate, SimulationOf(outcome, call.point)),
                     Settled(updater, UrlRunSimulation, call.point)))

NextUpdater ==
    \/ SetSubscriptionKey
    \/ CallBatch
    \/ BatchRequestSettles
    \/ BatchDelayElapses
    \/ CallUpdateAndSimulate
    \/ UpdateSettles
    \/ SimulationSettles

\* a new SpatialDataUpdater, in a development or a production build
InitUpdater ==
    /\ response = NoResponse
    /\ pc = "idle"
    /\ call = NoCall
    /\ result = NoResult
    /\ earlier = [call |-> NoCall, result |-> NoResult]
    /\ dom = [change |-> Container(TRUE), total |-> Container(TRUE)]
    /\ updater \in {[NoUpdater EXCEPT !.production = b] : b \in BOOLEAN}

SpecUpdater == InitUpdater /\ [][NextUpdater]_vars

BatchRunning == call.op = "batchUpdateSpatialData"
BatchDone == Done("batchUpdateSpatialData")


\* the points of the call that got an answer that is not the want of a key:
\* those a request was made for, in the order of results
RECURSIVE RequestedOf(_)
RequestedOf(results) ==
    IF results = <<>> THEN <<>>
    ELSE (IF Head(results).error = ErrKeyRequired THEN <<>>
          ELSE <<[url |-> UrlUpdateSpatial, point |-> Head(results).of]>>)
         \o RequestedOf(Tail(results))

\* C24: batchUpdateSpatialData takes the points one after the other in
\* input order: while the request for points[i] is in flight every point
\* before it has its result, the i delays between them are over and no
\* timer runs; while a delay runs no request is in flight; never is more
\* than one request in flight; the requests were issued in the order of
\* the points; and no delay follows the last point.
C24_OnePointAtATime ==
    BatchRunning =>
        LET n == Len(call.points)
            results == result.results
        IN  /\ Cardinality(updater.inFlight) <= 1
            /\ pc = "batch: request" =>
                /\ updater.inFlight = {[url |-> UrlUpdateSpatial, point |-> call.points[call.i + 1]]}
                /\ Len(results) = call.i
                /\ updater.delays = call.i
                /\ ~updater.timer
                /\ updater.requests
                     = RequestedOf(results) \o <<[url |-> UrlUpdateSpatial, point |-> call.points[call.i + 1]]>>
            /\ pc = "batch: delay" =>
                /\ updater.inFlight = {}
                /\ updater.timer
                /\ Len(results) = call.i + 1
                /\ updater.delays = call.i
                /\ call.i + 1 < n
            /\ pc = "done" =>
                /\ updater.inFlight = {}
                /\ ~updater.timer
                /\ updater.delays = (IF results = <<>> THEN 0 ELSE Len(results) - 1)
                /\ updater.delays < IF n = 0 THEN 1 ELSE n
                /\ updater.requests = RequestedOf(results)

\* the request for the third point is in flight, after two delays and a
\* first point that failed
C24_Witness ==
    /\ BatchRunning
    /\ pc = "batch: request"
    /\ call.i = 2
    /\ updater.delays = 2
    /\ Len(updater.requests) = 3
    /\ ~result.results[1].success


\* the key there was when the method was called: no request was made and
\* the only result is the want of a key
CalledWithoutKey ==
    /\ updater.requests = <<>>
    /\ updater.delays = 0
    /\ result.results = <<KeyFailure("none")>>

\* C25, as claimed: batchUpdateSpatialData returns one result per point,
\* result i being that of point i: the list returned is as long as the list
\* of points in every case, without a subscription key too.
C25_OneResultPerPoint ==
    BatchDone =>
        /\ Len(result.results) = Len(call.points)
        /\ \A k \in 1..Len(result.results) : result.results[k].of = call.points[k]

\* C25, amended: called with a subscription key set, batchUpdateSpatialData
\* returns one result per point, result i being that of point i, whether
\* the points before it failed or not (none for an empty list); called
\* without a key it returns a list of one failure, whatever the number of
\* points, and makes no request.
C25_OneResultPerPointWithKey ==
    BatchDone =>
        \/ /\ Len(result.results) = Len(call.points)
           /\ \A k \in 1..Len(result.results) : result.results[k].of = call.points[k]
        \/ /\ CalledWithoutKey
           /\ \A k \in 1..Len(result.results) :
                ~result.results[k].success /\ result.results[k].error = ErrKeyRequired

\* three points, the first and the second failed, the third succeeded
C25_Witness ==
    /\ BatchDone
    /\ Len(call.points) = 3
    /\ Len(result.results) = 3
    /\ ~result.results[1].success /\ result.results[1].error = ErrProxyFailed
    /\ ~result.results[2].success
    /\ result.results[3].success

\* three points and no key: one result
C25_WitnessWithoutKey ==
    /\ BatchDone
    /\ Len(call.points) = 3
    /\ CalledWithoutKey


SimulateRunning == call.op = "updateAndSimulate"

\* C26: updateAndSimulate issues the simulation request only after the
\* spatial-update request has returned with success true: the two requests
\* are never in flight together and the update comes first; without a
\* subscription key at the call no request is issued; when the spatial
\* update fails no simulation request is issued and the result has no
\* simulation field.
C26_SimulationAfterUpdate ==
    SimulateRunning =>
        LET update == [url |-> UrlUpdateSpatial, point |-> call.point]
            simulation == [url |-> UrlRunSimulation, point |-> call.point]
        IN  /\ Cardinality(updater.inFlight) <= 1
            /\ updater.requests \in {<<>>, <<update>>, <<update, simulation>>}
            /\ pc = "simulate: update" =>
                updater.requests = <<update>> /\ updater.inFlight = {update}
            /\ pc = "simulate: simulation" =>
                /\ updater.requests = <<update, simulation>>
                /\ updater.inFlight = {simulation}
                /\ result.spatialUpdate.success
            /\ pc = "done" =>
                /\ updater.inFlight = {}
                /\ updater.requests = <<>> <=> result.spatialUpdate = KeyFailure(call.point)
                /\ updater.requests = <<>> => result.fields = {"spatialUpdate"}
                /\ ~result.spatialUpdate.success =>
                    /\ result.fields = {"spatialUpdate"}
                    /\ Len(updater.requests) <= 1
                /\ result.spatialUpdate.success => result.fields = {"spatialUpdate", "simulation"}
                /\ Len(updater.requests) = 2 => result.spatialUpdate.success

\* the update succeeded and the simulation ran
C26_Witness ==
    /\ SimulateRunning /\ pc = "done"
    /\ Len(updater.requests) = 2
    /\ result.spatialUpdate.success
    /\ result.simulation.success


\* the last total of buildCumulativeSequestrationSeries over the changes of
\* a successful extractStepCarbonChanges
LastTotal ==
    LET totals == buildCumulativeSequestrationSeries(Defined(result.data))
    IN  totals[Len(totals)].total

\* C27, as claimed: the records emitted by a successful
\* extractStepCarbonChanges are one run of the sorted series, and the last
\* cumulative total over the result is combinedCarbon of the last emitted
\* record minus combinedCarbon of the record just before the first emitted
\* one, to 10 decimals.
C27_DeltasTelescope ==
    (ExtractDone /\ result.success) =>
        LET p == ChartPayload
            sorted == SortedLines(p)
            emitted == EmittedPositions(p, sorted)
            first == LeastOf(emitted)
            last == first + Cardinality(emitted) - 1
        IN  /\ emitted = first..last
            /\ LastTotal = 10 * RoundDiv(p.carbon[sorted[last]] - p.carbon[sorted[first - 1]], 10)

\* C27, amended: the emitted records are one run of the sorted series;
\* each delta is rounded to 10 decimals before it is summed, so the last
\* cumulative total is within half a unit of the 10th decimal per emitted
\* change of combinedCarbon of the last emitted record minus combinedCarbon
\* of the record just before the first emitted one, and equal to it when
\* every step of the run is a whole number of units of the 10th decimal.
C27_DeltasTelescopeUpToRounding ==
    (ExtractDone /\ result.success) =>
        LET p == ChartPayload
            sorted == SortedLines(p)
            emitted == EmittedPositions(p, sorted)
            first == LeastOf(emitted)
            last == first + Cardinality(emitted) - 1
            difference == p.carbon[sorted[last]] - p.carbon[sorted[first - 1]]
        IN  /\ emitted = first..last
            /\ Len(result.data) = Cardinality(emitted)
            /\ Abs(LastTotal - difference) <= 5 * Cardinality(emitted)
            /\ (\A r \in emitted : (p.carbon[sorted[r]] - p.carbon[sorted[r - 1]]) % 10 = 0)
                => LastTotal = difference

\* two changes of half a unit of the 10th decimal each: the total is two
\* units, the difference one
C27_Witness ==
    /\ ExtractDone /\ result.success
    /\ Len(result.data) = 2
    /\ result.data[1].delta = 10 /\ result.data[2].delta = 10
    /\ LastTotal = 20
    /\ LET p == ChartPayload
           sorted == SortedLines(p)
       IN  p.carbon[sorted[3]] - p.carbon[sorted[1]] = 10

\* one change of a whole unit: the total is the difference
C27_WitnessExact ==
    /\ ExtractDone /\ result.success
    /\ Len(result.data) = 1
    /\ LastTotal = 10
    /\ LET p == ChartPayload
           sorted == SortedLines(p)
       IN  Len(sorted) = 2 /\ p.carbon[sorted[2]] - p.carbon[sorted[1]] = 10


----------------------------------------------------------------------------
(* renderStepSequestrationCharts on the payloads of the charts *)

CallRenderCharts ==
    /\ pc = "idle"
    /\ \E resp \in ChartResponses, s, e \in Steps :
        LET out == renderStepSequestrationCharts(resp, RangeOf(s, e), dom)
        IN  /\ response' = resp
            /\ call' = [op |-> "renderStepSequestrationCharts", range |-> RangeOf(s, e)]
            /\ result' = out.ret
            /\ dom' = out.page
    /\ pc' = "done"
    /\ UNCHANGED <<earlier, updater>>

NextRender == CallRenderCharts

\* the two containers may each be missing from the page
SpecRender == InitOps /\ [][NextRender]_vars

RenderDone == Done("renderStepSequestrationCharts") /\ ~result.thrown

\* the containers of the page that exist
Charts == {c \in {dom.change, dom.total} : c.present}

\* the labels of a drawn series
LabelsOf(series) == [k \in 1..Len(series) |-> series[k].label]

\* C28: renderStepSequestrationCharts keeps its two charts aligned.  When it
\* returns success, every container that exists shows a chart, the two
\* series are as long as the extracted changes and carry the same label at
\* each index, and both charts write the labels of the same tick indices,
\* those of getSharedTickIndices; when it returns failure, the result is
\* success=false with a message, every container that exists shows that
\* message as an empty chart, and no container shows data.
C28_ChartsAligned ==
    RenderDone =>
        LET changes == extractStepCarbonChanges(response, call.range) IN
        IF result.success
        THEN /\ result.fields = {"success"}
             /\ changes.success /\ Len(changes.data) >= 1
             /\ \A c \in Charts :
                    /\ c.content.kind = "chart"
                    /\ Len(c.content.series) = Len(changes.data)
                    /\ LabelsOf(c.content.series) = LabelsOf(changes.data)
                    /\ c.content.ticks
                         = TickLabels(LabelsOf(changes.data), 1,
                                      getSharedTickIndices(Len(changes.data)))
             /\ \A c, d \in Charts :
                    /\ LabelsOf(c.content.series) = LabelsOf(d.content.series)
                    /\ c.content.ticks = d.content.ticks
             /\ dom.change.present => dom.change.content.title = TitleChange
             /\ dom.total.present => dom.total.content.title = TitleTotal
        ELSE /\ result.fields = {"success", "error"}
             /\ result.error /= ""
             /\ ~changes.success
             /\ \A c \in Charts :
                    /\ c.content.kind = "empty"
                    /\ c.content.message = result.error
                    /\ c.content.series = <<>> /\ c.content.ticks = <<>>

\* both charts drawn from two changes
C28_Witness ==
    /\ RenderDone /\ result.success
    /\ Cardinality(Charts) = 2
    /\ Len(dom.change.content.series) = 2 /\ Len(dom.total.content.series) = 2
    /\ dom.change.content.series[2].value /= dom.total.content.series[2].value

\* both containers showing the message of a failed extraction
C28_WitnessFailure ==
    /\ RenderDone /\ ~result.success
    /\ Cardinality(Charts) = 2
    /\ dom.change.content.message = ErrNoChanges
    /\ dom.total.content.message = ErrNoChanges


----------------------------------------------------------------------------
(* weather.ts: classifyClimate.  Temperatures are in ten-thousandths of a  *)
(* degree, so that the values between 10.999 and 11 and between 18 and     *)
(* 18.001 exist; rainfall and mpot are in millimetres                      *)

Deg18_001 == 180010
Deg18 == 180000
Deg11 == 110000
Deg10_999 == 109990

Unclassified == "Unclassified"

ClimateClasses ==
    {"Tropical montane", "Tropical wet", "Tropical moist", "Tropical dry",
     "Warm temperate moist", "Warm temperate dry",
     "Cool temperate moist", "Cool temperate dry",
     "Warm temperate moist - low frost", "Warm temperate dry - low frost",
     "Warm temperate moist - high temp", "Warm temperate dry - high temp",
     "Cool temperate moist - low frost", "Cool temperate dry - low frost"}

\* an elevation in metres, and the elevation that is null
Elevation(metres) == [isNull |-> FALSE, metres |-> metres]
NullElevation == [isNull |-> TRUE, metres |-> 0]

\* (mpot > 0 ? rainfall / mpot : 0) > 1, for a rainfall that is not negative
RatioAboveOne(rainfall, mpot) == mpot > 0 /\ rainfall > mpot

classifyClimate(weatherData, elevation) ==
    LET avgTemp == weatherData.avgTemp
        rainfall == weatherData.rainfall
        frostDays == weatherData.frostDays
        moist == RatioAboveOne(rainfall, weatherData.mpot)
    IN  IF avgTemp >= Deg18_001 /\ frostDays < 7 /\ ~elevation.isNull /\ elevation.metres > 1000
        THEN "Tropical montane"
        ELSE IF avgTemp >= Deg18_001 /\ rainfall > 2000 /\ frostDays < 7
        THEN "Tropical wet"
        ELSE IF avgTemp >= Deg18_001 /\ rainfall >= 1000 /\ rainfall <= 2000 /\ frostDays < 7
        THEN "Tropical moist"
        ELSE IF avgTemp >= Deg18_001 /\ rainfall < 1000 /\ frostDays < 7
        THEN "Tropical dry"
        ELSE IF avgTemp >= Deg11 /\ avgTemp <= Deg18 /\ frostDays > 7 /\ moist
        THEN "Warm temperate moist"
        ELSE IF avgTemp >= Deg11 /\ avgTemp <= Deg18 /\ frostDays > 7 /\ ~moist
        THEN "Warm temperate dry"
        ELSE IF avgTemp <= Deg10_999 /\ frostDays > 7 /\ moist
        THEN "Cool temperate moist"
        ELSE IF avgTemp <= Deg10_999 /\ frostDays > 7 /\ ~moist
        THEN "Cool temperate dry"
        ELSE IF avgTemp >= Deg11 /\ avgTemp <= Deg18 /\ frostDays <= 7 /\ moist
        THEN "Warm temperate moist - low frost"
        ELSE IF avgTemp >= Deg11 /\ avgTemp <= Deg18 /\ frostDays <= 7 /\ ~moist
        THEN "Warm temperate dry - low frost"
        ELSE IF avgTemp >= Deg18_001 /\ frostDays > 7 /\ moist
        THEN "Warm temperate moist - high temp"
        ELSE IF avgTemp >= Deg18_001 /\ frostDays > 7 /\ ~moist
        THEN "Warm temperate dry - high temp"
        ELSE IF avgTemp <= Deg10_999 /\ frostDays <= 7 /\ moist
        THEN "Cool temperate moist - low frost"
        ELSE IF avgTemp <= Deg10_999 /\ frostDays <= 7 /\ ~moist
        THEN "Cool temperate dry - low frost"
        ELSE Unclassified

AvgTemps == {-20000, 109990, 109995, 110000, 150000, 180000, 180005, 180010, 250000}
Rainfalls == {0, 999, 1000, 2000, 2001}
FrostDayCounts == {0, 6, 7, 8}
Mpots == {0, 1000, 1500}
Elevations == {NullElevation, Elevation(0), Elevation(1000), Elevation(1001)}

CallClassify ==
    /\ pc = "idle"
    /\ \E avgTemp \in AvgTemps, rainfall \in Rainfalls, frostDays \in FrostDayCounts,
          mpot \in Mpots, elevation \in Elevations :
        LET weatherData == [avgTemp |-> avgTemp, rainfall |-> rainfall,
                            frostDays |-> frostDays, mpot |-> mpot]
        IN  /\ call' = [op |-> "classifyClimate", weatherData |-> weatherData,
                        elevation |-> elevation]
            /\ result' = classifyClimate(weatherData, elevation)
    /\ pc' = "done"
    /\ UNCHANGED <<response, earlier, dom, updater>>

NextClimate == CallClassify

SpecClimate == Init /\ [][NextClimate]_vars

ClassifyDone == Done("classifyClimate")

\* an average temperature in neither of the open intervals (10.999, 11)
\* and (18, 18.001)
OutsideGaps(avgTemp) ==
    /\ ~(Deg10_999 < avgTemp /\ avgTemp < Deg11)
    /\ ~(Deg18 < avgTemp /\ avgTemp < Deg18_001)

\* C29, as claimed: for frostDays >= 0, rainfall >= 0, mpot >= 0, any
\* elevation or none, and an average temperature outside the two gaps,
\* classifyClimate returns one of the named climate classes and never
\* 'Unclassified'.
C29_TotalOutsideGaps ==
    (/\ ClassifyDone
     /\ call.weatherData.frostDays >= 0
     /\ call.weatherData.rainfall >= 0
     /\ call.weatherData.mpot >= 0
     /\ OutsideGaps(call.weatherData.avgTemp))
        => result \in ClimateClasses /\ result /= Unclassified

\* what classifyClimate leaves unclassified: the two gaps, and exactly
\* seven frost days at 18.001 degrees or more
ClassifyLeavesOut ==
    ClassifyDone =>
        (result = Unclassified
            <=> \/ ~OutsideGaps(call.weatherData.avgTemp)
                \/ call.weatherData.avgTemp >= Deg18_001 /\ call.weatherData.frostDays = 7)


----------------------------------------------------------------------------
(* spatial-data-updater: unescapeJsonString.  A string is the tuple of its *)
(* characters                                                              *)

Quote == "\""
Backslash == "\\"
Newline == "\n"
Return == "\r"
Tab == "\t"

\* str.replace(/\\c/g, by): every backslash followed by c, found from left
\* to right, becomes the one character by
RECURSIVE ReplaceEscape(_, _, _)
ReplaceEscape(str, c, by) ==
    IF Len(str) < 2 THEN str
    ELSE IF str[1] = Backslash /\ str[2] = c
         THEN <<by>> \o ReplaceEscape(SubSeq(str, 3, Len(str)), c, by)
         ELSE <<str[1]>> \o ReplaceEscape(Tail(str), c, by)

unescapeJsonString(str) ==
    LET quotes == ReplaceEscape(str, Quote, Quote)
        newlines == ReplaceEscape(quotes, "n", Newline)
        returns == ReplaceEscape(newlines, "r", Return)
        tabs == ReplaceEscape(returns, "t", Tab)
    IN  ReplaceEscape(tabs, Backslash, Backslash)

\* the characters the strings are built from
Characters == {Quote, Backslash, Newline, Return, Tab, "n", "r", "t", "a"}

\* the strings of at most MaxTextLen characters
Strings == UNION {[1..k -> Characters] : k \in 0..MaxTextLen}

\* the escaped form of one character
EscapedChar(c) ==
    IF c = Quote THEN <<Backslash, Quote>>
    ELSE IF c = Backslash THEN <<Backslash, Backslash>>
    ELSE IF c = Newline THEN <<Backslash, "n">>
    ELSE IF c = Return THEN <<Backslash, "r">>
    ELSE IF c = Tab THEN <<Backslash, "t">>
    ELSE <<c>>

\* the escaped form of a string
RECURSIVE Escaped(_)
Escaped(s) == IF s = <<>> THEN <<>> ELSE EscapedChar(s[1]) \o Escaped(Tail(s))

\* unescapeJsonString called on the escaped form of a string
CallUnescape ==
    /\ pc = "idle"
    /\ \E s \in Strings :
        /\ call' = [op |-> "unescapeJsonString", str |-> Escaped(s), of |-> s]
        /\ result' = unescapeJsonString(Escaped(s))
    /\ pc' = "done"
    /\ UNCHANGED <<response, earlier, dom, updater>>

NextUnescape == CallUnescape

SpecUnescape == Init /\ [][NextUnescape]_vars

UnescapeDone == Done("unescapeJsonString")

\* C30, as claimed: for every string s of quotes, backslashes, newlines,
\* carriage returns, tabs and letters, unescapeJsonString of the escaped
\* form of s is s.
C30_UnescapeInvertsEscape ==
    UnescapeDone => result = call.of

\* a backslash of s that comes right before one of the letters n, r, t
BackslashBeforeLetter(s) ==
    \E k \in 1..(Len(s) - 1) : s[k] = Backslash /\ s[k + 1] \in {"n", "r", "t"}

\* what unescapeJsonString does not invert: the strings with a backslash
\* right before a letter n, r or t
UnescapeInvertsUnless ==
    UnescapeDone => (result = call.of <=> ~BackslashBeforeLetter(call.of))


====
